---------------------------- MODULE Spec2Model ----------------------------
(***************************************************************************)
(* Model of the security-policy resolver and access gateway of auth-svc.   *)
(*                                                                         *)
(* JavaScript strings are modelled as sequences of one-character strings,  *)
(* so that length, trim, toLowerCase, includes, startsWith, split and URL  *)
(* parsing are computed character by character.  The value undefined of a  *)
(* string-typed variable is the one-element sequence Undefined, whose      *)
(* element is not a character.  Environment tags are TLA+ strings: the     *)
(* code only compares them with === and interpolates them.                 *)
(***************************************************************************)
EXTENDS Integers, Sequences, FiniteSets, TLC

VARIABLES
    env,          \* the Bindings of the last call
    resolvedEnv,  \* value returned by the last call of resolveAuthEnvironment
    built,        \* outcome of the last call of buildResolvedAuthConfig
    request,      \* the last request handled on the identity route namespace
    response,     \* the response to that request
    cache,        \* the memoized configurations of the process, by cacheKey
    computed,     \* how often a configuration was built for each cacheKey
    failed,       \* the failed constructions so far: Bindings and error
    mail,         \* the email trigger under way: callback, send promise, log
    caught,       \* a value caught from the identity library and its classification
    calls,        \* the outbound calls of the endpoint handling the request
    lookups       \* the configuration lookups under way, by request

vars == <<env, resolvedEnv, built, request, response, cache, computed, failed,
          mail, caught, calls, lookups>>

-----------------------------------------------------------------------------
(* Bounds of the model                                                     *)

\* upper-cased variants are generated for the first MaxUpper characters
MaxUpper == 3
\* raw values are padded with up to MaxPad blanks on both sides
MaxPad == 1

-----------------------------------------------------------------------------
(* JavaScript strings                                                      *)

Undefined == <<"undefined">>

\* !!value for a value of type string | undefined
Truthy(value) == value # Undefined /\ value # <<>>

UpperChars ==
    <<"A","B","C","D","E","F","G","H","I","J","K","L","M",
      "N","O","P","Q","R","S","T","U","V","W","X","Y","Z">>
LowerChars ==
    <<"a","b","c","d","e","f","g","h","i","j","k","l","m",
      "n","o","p","q","r","s","t","u","v","w","x","y","z">>

LowerChar(c) ==
    IF \E i \in 1..26 : UpperChars[i] = c
    THEN LowerChars[CHOOSE i \in 1..26 : UpperChars[i] = c]
    ELSE c

UpperChar(c) ==
    IF \E i \in 1..26 : LowerChars[i] = c
    THEN UpperChars[CHOOSE i \in 1..26 : LowerChars[i] = c]
    ELSE c

\* String.prototype.toLowerCase
toLowerCase(s) == [i \in 1..Len(s) |-> LowerChar(s[i])]

\* the white space String.prototype.trim removes (the part the inputs use)
WhiteSpace == {" ", "\t", "\n"}

RECURSIVE trimStart(_)
trimStart(s) ==
    IF s # <<>> /\ Head(s) \in WhiteSpace THEN trimStart(Tail(s)) ELSE s

RECURSIVE trimEnd(_)
trimEnd(s) ==
    IF s # <<>> /\ s[Len(s)] \in WhiteSpace
    THEN trimEnd(SubSeq(s, 1, Len(s) - 1))
    ELSE s

\* String.prototype.trim
trim(s) == trimEnd(trimStart(s))

\* String.prototype.includes, for a one-character needle
includes(s, c) == \E i \in 1..Len(s) : s[i] = c

\* String.prototype.startsWith
startsWith(s, prefix) ==
    Len(s) >= Len(prefix) /\ SubSeq(s, 1, Len(prefix)) = prefix

\* position of the first occurrence of the character c in s, 0 when absent
indexOf(s, c) ==
    IF includes(s, c) THEN CHOOSE i \in 1..Len(s) :
                               s[i] = c /\ \A j \in 1..(i - 1) : s[j] # c
    ELSE 0

\* n copies of the character c
Repeat(c, n) == [i \in 1..n |-> c]

-----------------------------------------------------------------------------
(* String literals of the source                                           *)

K_dev == <<"d","e","v">>
K_development == <<"d","e","v","e","l","o","p","m","e","n","t">>
K_qa == <<"q","a">>
K_test == <<"t","e","s","t">>
K_testing == <<"t","e","s","t","i","n","g">>
K_prod == <<"p","r","o","d">>
K_production == <<"p","r","o","d","u","c","t","i","o","n">>
K_preview == <<"p","r","e","v","i","e","w">>
K_local == <<"l","o","c","a","l">>
K_constructor == <<"c","o","n","s","t","r","u","c","t","o","r">>
K_proto == <<"_","_","p","r","o","t","o","_","_">>
K_toString == <<"t","o","S","t","r","i","n","g">>
K_valueOf == <<"v","a","l","u","e","O","f">>

-----------------------------------------------------------------------------
(* Environment classifier                                                  *)

EnvironmentTags == {"local", "test", "dev", "qa", "preview", "production"}

\* the own properties of the object literal ENVIRONMENT_MAP
ENVIRONMENT_MAP ==
    { <<K_dev, "dev">>, <<K_development, "dev">>, <<K_qa, "qa">>,
      <<K_test, "test">>, <<K_testing, "test">>, <<K_prod, "production">>,
      <<K_production, "production">>, <<K_preview, "preview">>,
      <<K_local, "local">> }

\* ENVIRONMENT_MAP is an object literal, so a property read that finds no own
\* property continues in Object.prototype.  The values found there are
\* objects; they are written as the strings they coerce to.
ObjectPrototype ==
    { <<K_constructor, "function Object() { [native code] }">>,
      <<K_proto, "[object Object]">>,
      <<K_toString, "function toString() { [native code] }">>,
      <<K_valueOf, "function valueOf() { [native code] }">> }

OwnKeys(object) == { p[1] : p \in object }

\* object[key] is neither undefined nor null
HasProperty(object, key) ==
    key \in OwnKeys(object) \/ key \in OwnKeys(ObjectPrototype)

\* object[key], where HasProperty(object, key)
GetProperty(object, key) ==
    IF key \in OwnKeys(object)
    THEN (CHOOSE p \in object : p[1] = key)[2]
    ELSE (CHOOSE p \in ObjectPrototype : p[1] = key)[2]

resolveAuthEnvironment(bindings) ==
    LET fallback == IF bindings.ENVIRONMENT = Undefined
                    THEN K_local
                    ELSE toLowerCase(bindings.ENVIRONMENT)
    IN  IF HasProperty(ENVIRONMENT_MAP, fallback)
        THEN GetProperty(ENVIRONMENT_MAP, fallback)
        ELSE "local"

-----------------------------------------------------------------------------
(* Outcome of a function that may throw                                    *)

Returned(v) == [threw |-> FALSE, value |-> v, error |-> <<>>]
\* an Error whose message is the concatenation of the parts
Threw(parts) == [threw |-> TRUE, value |-> Undefined, error |-> parts]

\* an absent object-valued property
UndefinedObject == [undefined |-> TRUE]

-----------------------------------------------------------------------------
(* Static tables                                                           *)

\* ORG_SLUG left at the slug of another organization
ORG_SLUG_Other == "acme"

ORG_SLUG == "boletrics"

\* RATE_LIMITS with the dev limits copied to preview
RATE_LIMITS_PreviewAsDev(tag) ==
    CASE tag = "local"      -> [window |-> 10, max |-> 300, enabled |-> FALSE]
      [] tag = "preview"    -> [window |-> 10, max |-> 90, enabled |-> TRUE]
      [] tag = "dev"        -> [window |-> 10, max |-> 90, enabled |-> TRUE]
      [] tag = "qa"         -> [window |-> 10, max |-> 80, enabled |-> TRUE]
      [] tag = "production" -> [window |-> 10, max |-> 60, enabled |-> TRUE]
      [] tag = "test"       -> [window |-> 10, max |-> 60, enabled |-> FALSE]
      [] OTHER              -> UndefinedObject

RATE_LIMITS(tag) ==
    CASE tag = "local"      -> [window |-> 10, max |-> 300, enabled |-> FALSE]
      [] tag = "preview"    -> [window |-> 10, max |-> 120, enabled |-> TRUE]
      [] tag = "dev"        -> [window |-> 10, max |-> 90, enabled |-> TRUE]
      [] tag = "qa"         -> [window |-> 10, max |-> 80, enabled |-> TRUE]
      [] tag = "production" -> [window |-> 10, max |-> 60, enabled |-> TRUE]
      [] tag = "test"       -> [window |-> 10, max |-> 60, enabled |-> FALSE]
      [] OTHER              -> UndefinedObject

CROSS_SUBDOMAIN_ENVS == {"preview", "dev", "qa", "production"}

DEFAULT_COOKIE_DOMAIN ==
    <<".","b","o","l","e","t","r","i","c","s",".","w","o","r","k","e","r","s",
      ".","d","e","v">>
DEFAULT_TRUSTED_ORIGIN ==
    <<"h","t","t","p","s",":","/","/","*",".","b","o","l","e","t","r","i","c",
      "s",".","w","o","r","k","e","r","s",".","d","e","v">>
LOCALHOST_HTTP ==
    <<"h","t","t","p",":","/","/","l","o","c","a","l","h","o","s","t",":","*">>
LOCALHOST_HTTPS ==
    <<"h","t","t","p","s",":","/","/","l","o","c","a","l","h","o","s","t",":",
      "*">>
LOOPBACK_HTTP ==
    <<"h","t","t","p",":","/","/","1","2","7",".","0",".","0",".","1",":","*">>
LOOPBACK_HTTPS ==
    <<"h","t","t","p","s",":","/","/","1","2","7",".","0",".","0",".","1",":",
      "*">>
FALLBACK_SECRET ==
    <<"l","o","c","a","l","-","d","e","v","-","s","e","c","r","e","t","-","p",
      "l","e","a","s","e","-","o","v","e","r","r","i","d","e","-","0","1",
      "2","3","4","5","6","7","8","9">>

\* COOKIE_DOMAIN_BY_ENV without the entry for dev
COOKIE_DOMAIN_BY_ENV_NoDev(tag) ==
    IF tag \in {"preview", "qa", "production"}
    THEN DEFAULT_COOKIE_DOMAIN
    ELSE Undefined

COOKIE_DOMAIN_BY_ENV(tag) ==
    IF tag \in {"preview", "dev", "qa", "production"}
    THEN DEFAULT_COOKIE_DOMAIN
    ELSE Undefined

\* TRUSTED_ORIGINS_BY_ENV[tag] ?? []
TRUSTED_ORIGINS_BY_ENV(tag) ==
    IF tag \in {"preview", "dev", "qa", "production"}
    THEN <<DEFAULT_TRUSTED_ORIGIN>>
    ELSE <<>>

\* LOCAL_DEVELOPMENT_ORIGINS without the localhost patterns
LOCAL_DEVELOPMENT_ORIGINS_Loopback == <<LOOPBACK_HTTP, LOOPBACK_HTTPS>>

LOCAL_DEVELOPMENT_ORIGINS ==
    <<LOCALHOST_HTTP, LOCALHOST_HTTPS, LOOPBACK_HTTP, LOOPBACK_HTTPS>>

-----------------------------------------------------------------------------
(* Secret                                                                  *)

MIN_SECRET_LENGTH == 32

\* resolveSecret with the fallback returned in every environment
resolveSecret_FallbackEverywhere(secret, tag) ==
    IF Truthy(secret) /\ Len(secret) >= MIN_SECRET_LENGTH
    THEN Returned(secret)
    ELSE Returned(FALLBACK_SECRET)

resolveSecret(secret, tag) ==
    IF Truthy(secret) /\ Len(secret) >= MIN_SECRET_LENGTH
    THEN Returned(secret)
    ELSE IF tag = "local" \/ tag = "test"
         THEN Returned(FALLBACK_SECRET)
         ELSE Threw(<<"BETTER_AUTH_SECRET",
                      " is not configured or too short. Set a >=32 char secret via 'wrangler secret put BETTER_AUTH_SECRET'.">>)

-----------------------------------------------------------------------------
(* Base URL                                                                *)

Digits == {"0","1","2","3","4","5","6","7","8","9"}
Letters == {UpperChars[i] : i \in 1..26} \cup {LowerChars[i] : i \in 1..26}
SchemeChars == Letters \cup Digits \cup {"+", "-", "."}
K_http == <<"h","t","t","p">>
K_https == <<"h","t","t","p","s">>
SpecialSchemes ==
    { K_http, K_https, <<"f","t","p">>, <<"w","s">>, <<"w","s","s">> }

\* the URL parser drops leading and trailing C0 control characters and spaces
RECURSIVE stripSlashes(_)
stripSlashes(s) ==
    IF s # <<>> /\ Head(s) \in {"/", "\\"} THEN stripSlashes(Tail(s)) ELSE s

\* the part of s before the first character of the set stops
RECURSIVE takeUntil(_, _)
takeUntil(s, stops) ==
    IF s = <<>> \/ Head(s) \in stops
    THEN <<>>
    ELSE <<Head(s)>> \o takeUntil(Tail(s), stops)

\* new URL(input), without a base: the protocol of the parsed URL, or a
\* TypeError.  A scheme is a letter followed by letters, digits, "+", "-",
\* "." and ends at the first ":"; the special schemes need a non-empty host
\* without blanks and a port of digits.
parseURL(input) ==
    LET s == trim(input)
        colon == indexOf(s, ":")
        scheme == IF colon = 0 THEN <<>> ELSE SubSeq(s, 1, colon - 1)
        validScheme == /\ scheme # <<>>
                       /\ scheme[1] \in Letters
                       /\ \A i \in 1..Len(scheme) : scheme[i] \in SchemeChars
        lower == toLowerCase(scheme)
        rest == stripSlashes(SubSeq(s, colon + 1, Len(s)))
        authority == takeUntil(rest, {"/", "?", "#", "\\"})
        hostname == takeUntil(authority, {":"})
        port == IF includes(authority, ":")
                THEN SubSeq(authority, indexOf(authority, ":") + 1, Len(authority))
                ELSE <<>>
        validHost == /\ hostname # <<>>
                     /\ \A i \in 1..Len(hostname) : hostname[i] \notin WhiteSpace
                     /\ \A i \in 1..Len(port) : port[i] \in Digits
    IN  IF ~validScheme THEN [typeError |-> TRUE, protocol |-> <<>>]
        ELSE IF lower \in SpecialSchemes /\ ~validHost
        THEN [typeError |-> TRUE, protocol |-> <<>>]
        ELSE [typeError |-> FALSE, protocol |-> lower \o <<":">>]

\* resolveBaseURL returning the validated value without trimming it
resolveBaseURL_NoTrim(baseURL, tag) ==
    IF tag = "local" \/ tag = "test"
    THEN Returned(baseURL)
    ELSE IF ~Truthy(baseURL) \/ Len(trim(baseURL)) = 0
    THEN Threw(<<"BETTER_AUTH_URL", " is required for non-local environments.">>)
    ELSE LET url == parseURL(baseURL)
         IN  IF url.typeError
             THEN Threw(<<"BETTER_AUTH_URL", " must be a valid URL. Received: ">>
                        \o baseURL)
             ELSE IF url.protocol \notin {K_http \o <<":">>, K_https \o <<":">>}
             THEN Threw(<<"BETTER_AUTH_URL",
                          " must use http:// or https:// protocol.">>)
             ELSE Returned(baseURL)

resolveBaseURL(baseURL, tag) ==
    IF tag = "local" \/ tag = "test"
    THEN Returned(baseURL)
    ELSE IF ~Truthy(baseURL) \/ Len(trim(baseURL)) = 0
    THEN Threw(<<"BETTER_AUTH_URL",
                 " is required for non-local environments. Set it via environment variable or 'wrangler secret put BETTER_AUTH_URL'.">>)
    ELSE LET url == parseURL(baseURL)
         IN  IF url.typeError
             THEN Threw(<<"BETTER_AUTH_URL", " must be a valid URL. Received: ">>
                        \o baseURL)
             ELSE IF url.protocol \notin {K_http \o <<":">>, K_https \o <<":">>}
             THEN Threw(<<"BETTER_AUTH_URL",
                          " must use http:// or https:// protocol.">>)
             ELSE Returned(trim(baseURL))

-----------------------------------------------------------------------------
(* Access policy                                                           *)

MIN_TOKEN_LENGTH == 16

\* resolveAccessPolicy with the parts a slip would change:
\* which tags enforce, and the least token length
AccessPolicyWith(bindings, enforceInternal, minLength) ==
    LET token == bindings.AUTH_INTERNAL_TOKEN
    IN  IF enforceInternal /\ (~Truthy(token) \/ Len(token) < minLength)
        THEN Threw(<<"AUTH_INTERNAL_TOKEN",
                     " is required for non-local environments.">>)
        ELSE IF Truthy(token)
        THEN Returned([enforceInternal |-> enforceInternal, token |-> token])
        ELSE Returned([enforceInternal |-> enforceInternal, token |-> Undefined])

\* enforcing in production only
resolveAccessPolicy_ProductionOnly(bindings, tag) ==
    AccessPolicyWith(bindings, tag = "production", MIN_TOKEN_LENGTH)

\* enforcing in every environment
resolveAccessPolicy_AlwaysEnforce(bindings, tag) ==
    AccessPolicyWith(bindings, TRUE, MIN_TOKEN_LENGTH)

\* accepting any non-empty token
resolveAccessPolicy_NoLength(bindings, tag) ==
    AccessPolicyWith(bindings, tag # "local" /\ tag # "test", 1)

resolveAccessPolicy(bindings, tag) ==
    LET enforceInternal == tag # "local" /\ tag # "test"
        token == bindings.AUTH_INTERNAL_TOKEN
    IN  IF enforceInternal /\ (~Truthy(token) \/ Len(token) < MIN_TOKEN_LENGTH)
        THEN Threw(<<"AUTH_INTERNAL_TOKEN",
                     " is required for non-local environments. Configure it via 'wrangler secret put AUTH_INTERNAL_TOKEN'.">>)
        ELSE IF Truthy(token)
        THEN Returned([enforceInternal |-> enforceInternal, token |-> token])
        ELSE Returned([enforceInternal |-> enforceInternal, token |-> Undefined])

-----------------------------------------------------------------------------
(* Cookie domain                                                           *)

\* normalizeCookieDomain without the leading dot added
normalizeCookieDomain_NoLeadingDot(domain) ==
    IF ~Truthy(domain) THEN Returned(Undefined)
    ELSE LET cleaned == toLowerCase(trim(domain))
         IN  IF cleaned = <<>> THEN Returned(Undefined)
             ELSE IF ~includes(cleaned, ".")
             THEN Threw(<<"AUTH_COOKIE_DOMAIN", " must include a \".\"">>)
             ELSE IF includes(cleaned, "*")
             THEN Threw(<<"AUTH_COOKIE_DOMAIN",
                          " does not support wildcard values.">>)
             ELSE Returned(cleaned)

normalizeCookieDomain(domain) ==
    IF ~Truthy(domain) THEN Returned(Undefined)
    ELSE LET cleaned == toLowerCase(trim(domain))
         IN  IF cleaned = <<>> THEN Returned(Undefined)
             ELSE IF ~includes(cleaned, ".")
             THEN Threw(<<"AUTH_COOKIE_DOMAIN",
                          " must include a \".\" (example: .example.com).">>)
             ELSE IF includes(cleaned, "*")
             THEN Threw(<<"AUTH_COOKIE_DOMAIN",
                          " does not support wildcard values. Provide a concrete domain such as .example.com">>)
             ELSE Returned(IF startsWith(cleaned, <<".">>)
                           THEN cleaned
                           ELSE <<".">> \o cleaned)

resolveCookieDomain(bindings, tag) ==
    LET override == normalizeCookieDomain(bindings.AUTH_COOKIE_DOMAIN)
    IN  IF override.threw THEN override
        ELSE IF Truthy(override.value) THEN override
        ELSE Returned(COOKIE_DOMAIN_BY_ENV(tag))

\* shouldEnableCrossSubdomainCookies looking at the domain only
shouldEnableCrossSubdomainCookies_AnyEnv(tag, cookieDomain) ==
    Truthy(cookieDomain)

shouldEnableCrossSubdomainCookies(tag, cookieDomain) ==
    tag \in CROSS_SUBDOMAIN_ENVS /\ Truthy(cookieDomain)

-----------------------------------------------------------------------------
(* Trusted origins                                                         *)

\* String.prototype.split(","): the pieces between the commas
RECURSIVE split(_)
split(s) ==
    LET comma == indexOf(s, ",")
    IN  IF comma = 0 THEN <<s>>
        ELSE <<SubSeq(s, 1, comma - 1)>> \o split(SubSeq(s, comma + 1, Len(s)))

parseList(value) ==
    IF ~Truthy(value) THEN <<>>
    ELSE LET items == split(value)
             trimmed == [i \in 1..Len(items) |-> trim(items[i])]
         IN  SelectSeq(trimmed, LAMBDA item : Len(item) > 0)

domainToTrustedOriginPatterns(domain) ==
    IF ~Truthy(domain) THEN <<>>
    ELSE LET sanitized == IF Head(domain) = "." THEN Tail(domain) ELSE domain
         IN  IF ~Truthy(sanitized) THEN <<>>
             ELSE << <<"h","t","t","p","s",":","/","/">> \o sanitized,
                     <<"h","t","t","p","s",":","/","/","*",".">> \o sanitized >>

\* Set.prototype.add on a Set kept in insertion order
SetAdd(set, item) ==
    IF \E i \in 1..Len(set) : set[i] = item THEN set ELSE Append(set, item)

RECURSIVE SetAddAll(_, _)
SetAddAll(set, items) ==
    IF items = <<>> THEN set
    ELSE SetAddAll(SetAdd(set, Head(items)), Tail(items))

\* resolveTrustedOrigins adding the domain-derived patterns only when it
\* seeds from the environment defaults
resolveTrustedOrigins_DomainOnlyDefault(bindings, tag, cookieDomain) ==
    LET explicitTrustedOrigins == parseList(bindings.AUTH_TRUSTED_ORIGINS)
        seeded == IF Len(explicitTrustedOrigins) > 0
                  THEN SetAddAll(<<>>, explicitTrustedOrigins)
                  ELSE SetAddAll(SetAddAll(<<>>, TRUSTED_ORIGINS_BY_ENV(tag)),
                                 domainToTrustedOriginPatterns(cookieDomain))
        origins == IF tag = "local" \/ tag = "test"
                   THEN SetAddAll(seeded, LOCAL_DEVELOPMENT_ORIGINS)
                   ELSE seeded
    IN  SelectSeq(origins, LAMBDA origin : Truthy(origin))

resolveTrustedOrigins(bindings, tag, cookieDomain) ==
    LET explicitTrustedOrigins == parseList(bindings.AUTH_TRUSTED_ORIGINS)
        seeded == IF Len(explicitTrustedOrigins) > 0
                  THEN SetAddAll(<<>>, explicitTrustedOrigins)
                  ELSE SetAddAll(<<>>, TRUSTED_ORIGINS_BY_ENV(tag))
        withLocal == IF tag = "local" \/ tag = "test"
                     THEN SetAddAll(seeded, LOCAL_DEVELOPMENT_ORIGINS)
                     ELSE seeded
        origins == SetAddAll(withLocal,
                             domainToTrustedOriginPatterns(cookieDomain))
    IN  SelectSeq(origins, LAMBDA origin : Truthy(origin))

-----------------------------------------------------------------------------
(* Configuration assembly                                                  *)

buildAdvancedOptions(tag, cookieDomain) ==
    [ disableCSRFCheck |-> (tag = "local" \/ tag = "test"),
      disableOriginCheck |-> (tag = "local" \/ tag = "test"),
      useSecureCookies |-> (tag # "local" /\ tag # "test"),
      crossSubDomainCookies |->
          IF shouldEnableCrossSubdomainCookies(tag, cookieDomain)
          THEN [enabled |-> TRUE, domain |-> cookieDomain]
          ELSE UndefinedObject ]

\* the values of the local constants of buildResolvedAuthConfig before the
\* first of them is assigned
NoLocals ==
    [ resolvedEnv |-> "undefined",
      secret |-> Undefined,
      baseURL |-> Undefined,
      accessPolicy |-> UndefinedObject,
      cookieDomain |-> Undefined,
      trustedOrigins |-> <<>> ]

NoConfig == UndefinedObject

\* buildResolvedAuthConfig threw: the error, the statements that had
\* completed and the local constants they assigned; nothing is returned
Aborted(error, done, locals) ==
    [ status |-> "threw", error |-> error, completed |-> done,
      locals |-> locals, config |-> NoConfig ]

\* The outcome of buildResolvedAuthConfig(bindings): either the returned
\* ResolvedAuthConfig or the Error thrown by the first step that fails.
buildResolvedAuthConfig(bindings) ==
    LET tag == resolveAuthEnvironment(bindings)
        secret == resolveSecret(bindings.BETTER_AUTH_SECRET, tag)
        baseURL == resolveBaseURL(bindings.BETTER_AUTH_URL, tag)
        accessPolicy == resolveAccessPolicy(bindings, tag)
        cookieDomain == resolveCookieDomain(bindings, tag)
        trustedOrigins == resolveTrustedOrigins(bindings, tag, cookieDomain.value)
        l1 == [NoLocals EXCEPT !.resolvedEnv = tag]
        l2 == [l1 EXCEPT !.secret = secret.value]
        l3 == [l2 EXCEPT !.baseURL = baseURL.value]
        l4 == [l3 EXCEPT !.accessPolicy = accessPolicy.value]
        l5 == [l4 EXCEPT !.cookieDomain = cookieDomain.value]
        l6 == [l5 EXCEPT !.trustedOrigins = trustedOrigins]
        d1 == <<"resolveAuthEnvironment">>
        d2 == Append(d1, "resolveSecret")
        d3 == Append(d2, "resolveBaseURL")
        d4 == Append(d3, "resolveAccessPolicy")
        d5 == Append(d4, "resolveCookieDomain")
        d6 == Append(d5, "resolveTrustedOrigins")
    IN  IF secret.threw THEN Aborted(secret.error, d1, l1)
        ELSE IF baseURL.threw THEN Aborted(baseURL.error, d2, l2)
        ELSE IF accessPolicy.threw THEN Aborted(accessPolicy.error, d3, l3)
        ELSE IF cookieDomain.threw THEN Aborted(cookieDomain.error, d4, l4)
        ELSE [ status |-> "returned",
               error |-> <<>>,
               completed |-> d6,
               locals |-> l6,
               config |->
                 [ cacheKey |-> <<ORG_SLUG, "-", tag>>,
                   secret |-> secret.value,
                   accessPolicy |-> accessPolicy.value,
                   options |->
                     [ appName |-> <<ORG_SLUG, "-auth-core-", tag>>,
                       basePath |-> "/api/auth",
                       baseURL |-> baseURL.value,
                       secret |-> secret.value,
                       jwtExpirationTime |->
                           IF tag = "production" THEN "15m" ELSE "30m",
                       session |->
                         [ updateAge |-> 60 * 30,
                           expiresIn |-> IF tag = "production"
                                         THEN 60 * 60 * 24 * 7
                                         ELSE 60 * 60 * 24 * 14,
                           freshAge |-> 60 * 15 ],
                       rateLimit |-> RATE_LIMITS(tag),
                       advanced |-> buildAdvancedOptions(tag, cookieDomain.value),
                       trustedOrigins |-> trustedOrigins ] ] ]

-----------------------------------------------------------------------------
(* Access gateway                                                          *)
(*                                                                         *)
(* The gateway (src/auth/routes.ts, src/middleware/cors.ts) is exercised   *)
(* by the integration tests but is not part of the sources at hand: it is  *)
(* modelled from the specification, sections 4.5 and 6.  The path literals *)
(* are those the integration tests and the specification name.             *)

PATH_OK == <<"/","a","p","i","/","a","u","t","h","/","o","k">>
PATH_JWKS ==
    <<"/","a","p","i","/","a","u","t","h","/","j","w","k","s">>
PATH_REFERENCE ==
    <<"/","a","p","i","/","a","u","t","h","/","r","e","f","e","r","e","n","c",
      "e">>
PATH_SCHEMA ==
    <<"/","a","p","i","/","a","u","t","h","/","o","p","e","n","-","a","p","i",
      "/","g","e","n","e","r","a","t","e","-","s","c","h","e","m","a">>
PATH_VERIFY_EMAIL ==
    <<"/","a","p","i","/","a","u","t","h","/","v","e","r","i","f","y","-","e",
      "m","a","i","l">>
PATH_FORGOT_PASSWORD ==
    <<"/","a","p","i","/","a","u","t","h","/","f","o","r","g","o","t","-","p",
      "a","s","s","w","o","r","d">>
PATH_RESET_PASSWORD ==
    <<"/","a","p","i","/","a","u","t","h","/","r","e","s","e","t","-","p","a",
      "s","s","w","o","r","d">>
PATH_HEALTH ==
    <<"/","a","p","i","/","a","u","t","h","/","h","e","a","l","t","h">>
PATH_SESSION ==
    <<"/","a","p","i","/","a","u","t","h","/","s","e","s","s","i","o","n">>
PATH_SIGN_IN ==
    <<"/","a","p","i","/","a","u","t","h","/","s","i","g","n","-","i","n","/",
      "e","m","a","i","l">>

\* health check, JWKS retrieval, OpenAPI reference page and schema, email
\* verification, password-reset initiation and completion
PUBLIC_ROUTES ==
    { PATH_OK, PATH_JWKS, PATH_REFERENCE, PATH_SCHEMA, PATH_VERIFY_EMAIL,
      PATH_FORGOT_PASSWORD, PATH_RESET_PASSWORD }

\* the request path matches a prefix of the public-route allowlist
isPublicRoute(path) == \E route \in PUBLIC_ROUTES : startsWith(path, route)

\* the part of an origin or pattern before "://", and the part after it
schemeOf(s) == takeUntil(s, {":"})
hostOf(s) ==
    LET n == Len(schemeOf(s))
    IN  IF Len(s) >= n + 3 /\ SubSeq(s, n + 1, n + 3) = <<":", "/", "/">>
        THEN SubSeq(s, n + 4, Len(s))
        ELSE <<>>

endsWith(s, suffix) ==
    Len(s) >= Len(suffix)
    /\ SubSeq(s, Len(s) - Len(suffix) + 1, Len(s)) = suffix

\* a matcher for which any host that ends with the domain matches
matchesOriginPattern_Suffix(origin, pattern) ==
    LET host == hostOf(origin)
        patternHost == hostOf(pattern)
    IN  IF ~includes(pattern, "*") THEN origin = pattern
        ELSE /\ schemeOf(origin) = schemeOf(pattern)
             /\ startsWith(patternHost, <<"*", ".">>)
             /\ endsWith(host, SubSeq(patternHost, 3, Len(patternHost)))

\* A literal pattern matches the identical origin.  scheme://*.domain matches
\* an origin of the same scheme whose host is one non-empty label followed by
\* .domain; scheme://host:* matches the same scheme and host with any port.
matchesOriginPattern(origin, pattern) ==
    LET host == hostOf(origin)
        patternHost == hostOf(pattern)
        sameScheme == schemeOf(origin) = schemeOf(pattern) /\ host # <<>>
    IN  IF ~includes(pattern, "*") THEN origin = pattern
        ELSE IF startsWith(patternHost, <<"*", ".">>)
        THEN LET domain == Tail(patternHost)
                 label == SubSeq(host, 1, Len(host) - Len(domain))
             IN  /\ sameScheme
                 /\ endsWith(host, domain)
                 /\ label # <<>>
                 /\ ~includes(label, ".")
        ELSE IF endsWith(patternHost, <<":", "*">>)
        THEN LET prefix == SubSeq(patternHost, 1, Len(patternHost) - 1)
                 port == SubSeq(host, Len(prefix) + 1, Len(host))
             IN  /\ sameScheme
                 /\ startsWith(host, prefix)
                 /\ port # <<>>
                 /\ \A i \in 1..Len(port) : port[i] \in Digits
        ELSE FALSE

isTrustedOrigin(origin, trustedOrigins) ==
    /\ Truthy(origin)
    /\ \E i \in 1..Len(trustedOrigins) :
           matchesOriginPattern(origin, trustedOrigins[i])

\* gatewayAdmits with the preflight treated like any other request
gatewayAdmits_NoPreflight(config, req) ==
    \/ ~config.accessPolicy.enforceInternal
    \/ (req.token # Undefined /\ req.token = config.accessPolicy.token)
    \/ isTrustedOrigin(req.origin, config.options.trustedOrigins)
    \/ isPublicRoute(req.path)

\* the decision of the gateway for a request to the identity namespace,
\* evaluated in the order of section 4.5
gatewayAdmits(config, req) ==
    \/ req.method = "OPTIONS"
    \/ ~config.accessPolicy.enforceInternal
    \/ (req.token # Undefined /\ req.token = config.accessPolicy.token)
    \/ isTrustedOrigin(req.origin, config.options.trustedOrigins)
    \/ isPublicRoute(req.path)

\* statuses the identity subsystem answers with
IdentityStatuses == {200, 401, 403, 404, 500}

\* the response to a request on the identity namespace: the gateway's own
\* 403, or whatever the identity subsystem answers to the forwarded request
Forwarded(status) ==
    [ status |-> status, forwarded |-> TRUE, body |-> UndefinedObject ]

Rejected ==
    [ status |-> 403, forwarded |-> FALSE,
      body |-> [success |-> FALSE, error |-> "Forbidden"] ]

handleAuthRequest(config, req, identityStatus) ==
    IF gatewayAdmits(config, req) THEN Forwarded(identityStatus) ELSE Rejected

-----------------------------------------------------------------------------
(* Inputs                                                                  *)

Min(a, b) == IF a < b THEN a ELSE b

\* s with the characters at the positions of mask in upper case
UpperAt(s, mask) ==
    [i \in 1..Len(s) |-> IF i \in mask THEN UpperChar(s[i]) ELSE s[i]]

CaseVariants(s) ==
    { UpperAt(s, mask) : mask \in SUBSET (1..Min(MaxUpper, Len(s))) }

Pad(s, k) == Repeat(" ", k) \o s \o Repeat(" ", k)

Padded(strings) == { Pad(s, k) : s \in strings, k \in 0..MaxPad }

K_unknown == <<"u","n","k","n","o","w","n">>
K_staging == <<"s","t","a","g","i","n","g">>
URL_HTTPS ==
    <<"h","t","t","p","s",":","/","/","a","u","t","h","-","c","o","r","e",".",
      "b","o","l","e","t","r","i","c","s",".","c","o","m">>
URL_HTTP_UPPER ==
    <<"H","T","T","P",":","/","/","L","o","c","a","l","h","o","s","t",":","8",
      "7","8","7">>
URL_FTP ==
    <<"f","t","p",":","/","/","i","n","v","a","l","i","d","-","p","r","o","t",
      "o","c","o","l",".","c","o","m">>
URL_NOHOST == <<"h","t","t","p","s",":","/","/">>
URL_INVALID ==
    <<"n","o","t","-","a","-","v","a","l","i","d","-","u","r","l">>
DOMAIN_PLAIN ==
    <<"L","o","g","i","n",".","C","l","i","e","n","t",".","c","o","m">>
DOMAIN_DOTTED == <<".","e","x","a","m","p","l","e",".","c","o","m">>
DOMAIN_NODOTS == <<"n","o","d","o","t","s">>
DOMAIN_WILDCARD ==
    <<"*",".","e","x","a","m","p","l","e",".","c","o","m">>
ORIGINS_EXPLICIT ==
    <<"h","t","t","p","s",":","/","/","p","o","r","t","a","l",".","c","l","i",
      "e","n","t",".","c","o","m",","," ",",","h","t","t","p","s",":","/",
      "/","*",".","c","l","i","e","n","t","-","s","t","a","g","i","n","g",
      ".","c","o","m">>

\* raw values of ENVIRONMENT given to the classifier
EnvironmentInputs ==
    {Undefined, <<>>}
    \cup UNION { CaseVariants(s) :
                   s \in OwnKeys(ENVIRONMENT_MAP) \cup OwnKeys(ObjectPrototype)
                         \cup {K_unknown, K_staging, <<" ">> \o K_dev} }

\* raw values of ENVIRONMENT given to the configuration assembly: one or two
\* spellings for each tag, an unknown stage and a name of Object.prototype
BuildEnvironments ==
    { Undefined, K_dev, <<"Q","A">>, K_testing, K_prod, K_preview, K_local,
      K_staging, K_constructor }

SecretInputs ==
    { Undefined, Repeat("s", MIN_SECRET_LENGTH - 1),
      Repeat("s", MIN_SECRET_LENGTH), FALLBACK_SECRET }

BaseURLInputs ==
    {Undefined} \cup Padded({<<>>, URL_HTTPS, URL_HTTP_UPPER, URL_FTP, URL_INVALID,
                            URL_NOHOST})

TokenInputs ==
    { Undefined, <<>>, Repeat("t", MIN_TOKEN_LENGTH - 1),
      Repeat("t", MIN_TOKEN_LENGTH) }

CookieDomainInputs ==
    {Undefined}
    \cup Padded({<<>>, DOMAIN_PLAIN, DOMAIN_DOTTED, DOMAIN_NODOTS, DOMAIN_WILDCARD})

TrustedOriginsInputs == { Undefined, ORIGINS_EXPLICIT }

\* Bindings of the requests on the identity namespace: valid secret and base
\* URL, with and without internal token, cookie-domain override and explicit
\* trusted origins
GatewayInputs ==
    [ ENVIRONMENT : {K_dev, K_prod, K_local, K_testing},
      BETTER_AUTH_SECRET : {Repeat("s", MIN_SECRET_LENGTH)},
      BETTER_AUTH_URL : {URL_HTTPS},
      AUTH_INTERNAL_TOKEN : {Undefined, Repeat("t", MIN_TOKEN_LENGTH)},
      AUTH_COOKIE_DOMAIN : {Undefined, DOMAIN_PLAIN},
      AUTH_TRUSTED_ORIGINS : TrustedOriginsInputs ]

ORIGIN_APP ==
    <<"h","t","t","p","s",":","/","/","a","p","p",".","b","o","l","e","t","r",
      "i","c","s",".","w","o","r","k","e","r","s",".","d","e","v">>
ORIGIN_EVIL ==
    <<"h","t","t","p","s",":","/","/","e","v","i","l",".","c","o","m">>
ORIGIN_PORTAL ==
    <<"h","t","t","p","s",":","/","/","p","o","r","t","a","l",".","c","l","i",
      "e","n","t",".","c","o","m">>
ORIGIN_LOCALHOST ==
    <<"h","t","t","p",":","/","/","l","o","c","a","l","h","o","s","t",":","3",
      "0","0","0">>
ORIGIN_LOGIN ==
    <<"h","t","t","p","s",":","/","/","l","o","g","i","n",".","c","l","i","e",
      "n","t",".","c","o","m">>
ORIGIN_NESTED ==
    <<"h","t","t","p","s",":","/","/","a",".","b",".","b","o","l","e","t","r",
      "i","c","s",".","w","o","r","k","e","r","s",".","d","e","v">>
ORIGIN_HTTP_APP ==
    <<"h","t","t","p",":","/","/","a","p","p",".","b","o","l","e","t","r","i",
      "c","s",".","w","o","r","k","e","r","s",".","d","e","v">>

Methods == {"GET", "POST", "OPTIONS"}

TokenHeaders ==
    { Undefined, <<>>, Repeat("t", MIN_TOKEN_LENGTH),
      Repeat("t", MIN_TOKEN_LENGTH - 1), Repeat("T", MIN_TOKEN_LENGTH) }

OriginHeaders ==
    { Undefined, ORIGIN_APP, ORIGIN_EVIL, ORIGIN_PORTAL, ORIGIN_LOCALHOST,
      ORIGIN_LOGIN, ORIGIN_NESTED, ORIGIN_HTTP_APP }

Paths == { PATH_JWKS, PATH_RESET_PASSWORD, PATH_HEALTH, PATH_SESSION, PATH_SIGN_IN }

Requests ==
    [ method : Methods, token : TokenHeaders, origin : OriginHeaders,
      path : Paths ]

NoBindings ==
    [ ENVIRONMENT |-> Undefined,
      BETTER_AUTH_SECRET |-> Undefined,
      BETTER_AUTH_URL |-> Undefined,
      AUTH_INTERNAL_TOKEN |-> Undefined,
      AUTH_COOKIE_DOMAIN |-> Undefined,
      AUTH_TRUSTED_ORIGINS |-> Undefined ]

ConfigInputs ==
    [ ENVIRONMENT : BuildEnvironments,
      BETTER_AUTH_SECRET : SecretInputs,
      BETTER_AUTH_URL : BaseURLInputs,
      AUTH_INTERNAL_TOKEN : TokenInputs,
      AUTH_COOKIE_DOMAIN : CookieDomainInputs,
      AUTH_TRUSTED_ORIGINS : TrustedOriginsInputs ]

-----------------------------------------------------------------------------
(* State machine                                                           *)

NotBuilt ==
    [ status |-> "none", error |-> <<>>, completed |-> <<>>,
      locals |-> NoLocals, config |-> NoConfig ]

NoRequest == UndefinedObject

\* nothing was caught from the identity library
NothingCaught == UndefinedObject

\* no email trigger under way
NoMail == UndefinedObject

\* no configuration lookup under way
NoLookups == UndefinedObject

\* the memo map of a process that has looked nothing up yet
EmptyCache == [key \in {} |-> NoConfig]
NoResponse == UndefinedObject

\* Each behaviour is one call: the initial state holds the Bindings the call
\* is given, the action is the call.

NothingCalled ==
    /\ resolvedEnv = "undefined"
    /\ built = NotBuilt
    /\ request = NoRequest
    /\ response = NoResponse
    /\ cache = EmptyCache
    /\ computed = EmptyCache
    /\ failed = {}
    /\ mail = NoMail
    /\ caught = NothingCaught
    /\ calls = <<>>
    /\ lookups = NoLookups

\* resolveAuthEnvironment({ ENVIRONMENT: raw })
ClassifierInit ==
    /\ env \in { [NoBindings EXCEPT !.ENVIRONMENT = raw] :
                   raw \in EnvironmentInputs }
    /\ NothingCalled

Classify ==
    /\ resolvedEnv = "undefined"
    /\ resolvedEnv' = resolveAuthEnvironment(env)
    /\ UNCHANGED <<env, built, request, response, cache, computed, failed, mail,
                   caught, calls, lookups>>

ClassifierSpec == ClassifierInit /\ [][Classify]_vars

\* buildResolvedAuthConfig(env)
Init ==
    /\ env \in ConfigInputs
    /\ NothingCalled

Build ==
    /\ built.status = "none"
    /\ built' = buildResolvedAuthConfig(env)
    /\ UNCHANGED <<env, resolvedEnv, request, response, cache, computed, failed, mail,
                   caught, calls, lookups>>

Next == Build

Spec == Init /\ [][Next]_vars

\* a request to the identity route namespace under the built configuration
Fetch ==
    /\ built.status = "returned"
    /\ request = NoRequest
    /\ \E req \in Requests, identityStatus \in IdentityStatuses :
           /\ request' = req
           /\ response' = handleAuthRequest(built.config, req, identityStatus)
    /\ UNCHANGED <<env, resolvedEnv, built, cache, computed, failed, mail,
                   caught, calls, lookups>>

GatewayInit ==
    /\ env \in GatewayInputs
    /\ NothingCalled

GatewayNext == Build \/ Fetch

GatewaySpec == GatewayInit /\ [][GatewayNext]_vars

-----------------------------------------------------------------------------
(* Properties                                                              *)

\* the statement of buildResolvedAuthConfig that calls the function returned
Completed(name) ==
    \E i \in 1..Len(built.completed) : built.completed[i] = name

\* the call of buildResolvedAuthConfig has ended, by return or by throw
Called == built.status # "none"

\* the environment tag the call of buildResolvedAuthConfig resolved
Tag == built.locals.resolvedEnv

LocalOrTest(tag) == tag = "local" \/ tag = "test"

\* the request has been answered
Answered == request # NoRequest

\* the premises of a rejection: no valid token, no trusted origin, no public
\* path, not a preflight, under an enforcing policy
MustReject ==
    /\ Answered
    /\ built.config.accessPolicy.enforceInternal
    /\ request.method # "OPTIONS"
    /\ (request.token = Undefined
        \/ request.token # built.config.accessPolicy.token)
    /\ (request.origin = Undefined
        \/ \A i \in 1..Len(built.config.options.trustedOrigins) :
              ~matchesOriginPattern(request.origin,
                                    built.config.options.trustedOrigins[i]))
    /\ ~isPublicRoute(request.path)

\* the request was made in the environment tag, with the method and path
RequestIs(tag, method, path) ==
    Tag = tag /\ request.method = method /\ request.path = path

\* C1: under an enforcing policy, a non-OPTIONS request to the identity
\* namespace without the right internal token, without a trusted Origin and
\* outside the public routes is answered 403 with a JSON body carrying
\* success:false and is not forwarded to the identity subsystem.  So is, as
\* the integration tests have it, GET /api/auth/health in dev without token
\* or with a wrong one.
C1_RejectsUntrusted ==
    /\ MustReject =>
          /\ response.status = 403
          /\ response.body.success = FALSE
          /\ ~response.forwarded
    /\ (Answered /\ RequestIs("dev", "GET", PATH_HEALTH)
        /\ request.origin = Undefined
        /\ request.token \in {Undefined, Repeat("t", MIN_TOKEN_LENGTH - 1)})
          => response.status = 403 /\ ~response.forwarded

\* a wrong token, an untrusted origin and a private path were rejected
C1_Witness ==
    /\ MustReject
    /\ request.method = "GET"
    /\ request.token = Repeat("t", MIN_TOKEN_LENGTH - 1)
    /\ request.origin = ORIGIN_EVIL
    /\ request.path = PATH_HEALTH
    /\ response.status = 403

\* C2: the gateway admits a request (it does not answer 403 itself, the
\* request is forwarded) as soon as one of these holds: the policy does not
\* enforce, the token header equals the policy's token, the Origin matches a
\* trusted pattern, the path is a public route.  So is, as the integration
\* tests have it, every request in local, and GET /api/auth/health in dev
\* with the configured token.
C2_AdmitsOnAnyGround ==
    Answered =>
        /\ ~built.config.accessPolicy.enforceInternal => response.forwarded
        /\ (request.token # Undefined
            /\ request.token = built.config.accessPolicy.token)
               => response.forwarded
        /\ isTrustedOrigin(request.origin, built.config.options.trustedOrigins)
               => response.forwarded
        /\ isPublicRoute(request.path) => response.forwarded
        /\ Tag = "local" => response.forwarded
        /\ (RequestIs("dev", "GET", PATH_HEALTH)
            /\ request.token = env.AUTH_INTERNAL_TOKEN)
               => response.forwarded

\* a public route alone admitted a request: enforcing policy, no token,
\* untrusted origin
C2_Witness ==
    /\ Answered
    /\ built.config.accessPolicy.enforceInternal
    /\ request.method = "GET"
    /\ request.token = Undefined
    /\ request.origin = ORIGIN_EVIL
    /\ request.path = PATH_JWKS
    /\ response.forwarded

\* C3: an OPTIONS request to the identity namespace is never rejected by the
\* gateway and is always forwarded, whatever its token, Origin and path, also
\* under an enforcing policy.
C3_PreflightForwarded ==
    (Answered /\ request.method = "OPTIONS") =>
        /\ response.forwarded
        /\ response # Rejected

\* a preflight that has nothing else in its favour was forwarded
C3_Witness ==
    /\ Answered
    /\ request.method = "OPTIONS"
    /\ built.config.accessPolicy.enforceInternal
    /\ request.token = Repeat("t", MIN_TOKEN_LENGTH - 1)
    /\ request.origin = ORIGIN_EVIL
    /\ request.path = PATH_SIGN_IN
    /\ response.forwarded

\* the call resolveAuthEnvironment(env) has returned
Classified == resolvedEnv # "undefined"

\* C4: for every raw ENVIRONMENT, in any letter case, empty or undefined,
\* resolveAuthEnvironment returns one of the six tags, and local whenever the
\* lower-cased input is not a key of the synonym table.
C4_ClassifierTotal ==
    Classified =>
        /\ resolvedEnv \in EnvironmentTags
        /\ (env.ENVIRONMENT = Undefined
            \/ toLowerCase(env.ENVIRONMENT) \notin OwnKeys(ENVIRONMENT_MAP))
               => resolvedEnv = "local"

\* the raw value is one of the strings, padded with blanks
IsPadded(raw, strings) ==
    \E s \in strings, k \in 0..MaxPad : raw = Pad(s, k)

\* the raw value is missing, empty or blank
IsBlank(raw) == raw = Undefined \/ IsPadded(raw, {<<>>})

\* the error thrown names the configuration key
ErrorNames(key) == built.status = "threw" /\ Head(built.error) = key

\* C5: resolveSecret returns the candidate unchanged when it has at least 32
\* characters; for a missing or shorter candidate it returns the fixed
\* fallback in local and test and throws an error naming BETTER_AUTH_SECRET
\* in every other environment.
C5_ResolveSecret ==
    Called =>
        IF env.BETTER_AUTH_SECRET # Undefined /\ Len(env.BETTER_AUTH_SECRET) >= 32
        THEN Completed("resolveSecret")
             /\ built.locals.secret = env.BETTER_AUTH_SECRET
        ELSE IF LocalOrTest(Tag)
        THEN Completed("resolveSecret")
             /\ built.locals.secret = FALLBACK_SECRET
        ELSE ~Completed("resolveSecret")
             /\ ErrorNames("BETTER_AUTH_SECRET")

\* a candidate of 31 characters made the call fail in production
C5_Witness ==
    /\ Called
    /\ Tag = "production"
    /\ env.BETTER_AUTH_SECRET # Undefined
    /\ Len(env.BETTER_AUTH_SECRET) = 31
    /\ ErrorNames("BETTER_AUTH_SECRET")

\* C6: in a configuration built for an environment other than local and
\* test, the secret is never the fixed fallback constant, whatever the raw
\* secret variable holds.
C6_FallbackOnlyLocalOrTest ==
    (built.status = "returned" /\ ~LocalOrTest(Tag))
        => built.config.secret # FALLBACK_SECRET

\* C7: outside local and test resolveBaseURL throws an error naming
\* BETTER_AUTH_URL for a missing, empty or blank value, throws for a value
\* that is no URL or whose scheme is neither http nor https, and otherwise
\* returns the value without its surrounding blanks; in local and test it
\* returns the raw value as it is.
C7_ResolveBaseURL ==
    (Called /\ Completed("resolveSecret")) =>
        IF LocalOrTest(Tag)
        THEN Completed("resolveBaseURL")
             /\ built.locals.baseURL = env.BETTER_AUTH_URL
        ELSE /\ IsBlank(env.BETTER_AUTH_URL)
                  => ~Completed("resolveBaseURL") /\ ErrorNames("BETTER_AUTH_URL")
             /\ IsPadded(env.BETTER_AUTH_URL, {URL_FTP, URL_INVALID, URL_NOHOST})
                  => ~Completed("resolveBaseURL") /\ built.status = "threw"
             /\ \A url \in {URL_HTTPS, URL_HTTP_UPPER} :
                  IsPadded(env.BETTER_AUTH_URL, {url})
                  => Completed("resolveBaseURL") /\ built.locals.baseURL = url

\* a padded https URL was returned trimmed outside local and test
C7_Witness ==
    /\ Called
    /\ Tag = "dev"
    /\ env.BETTER_AUTH_URL = Pad(URL_HTTPS, 1)
    /\ Completed("resolveBaseURL")
    /\ built.locals.baseURL = URL_HTTPS

\* C8: in a built configuration enforceInternal is true exactly when the tag
\* is neither local nor test, and then the token is present with at least 16
\* characters; the construction fails when enforceInternal would be true and
\* the token variable is missing or shorter than 16 characters.
C8_AccessPolicy ==
    /\ built.status = "returned" =>
          /\ built.config.accessPolicy.enforceInternal <=> ~LocalOrTest(Tag)
          /\ built.config.accessPolicy.enforceInternal =>
                /\ built.config.accessPolicy.token # Undefined
                /\ built.config.accessPolicy.token = env.AUTH_INTERNAL_TOKEN
                /\ Len(built.config.accessPolicy.token) >= 16
    /\ (Called /\ ~LocalOrTest(Tag)
        /\ (env.AUTH_INTERNAL_TOKEN = Undefined \/ Len(env.AUTH_INTERNAL_TOKEN) < 16))
          => built.status = "threw"

\* a token of 15 characters made the construction fail on the token
C8_Witness ==
    /\ Called
    /\ Tag = "qa"
    /\ env.AUTH_INTERNAL_TOKEN # Undefined
    /\ Len(env.AUTH_INTERNAL_TOKEN) = 15
    /\ ErrorNames("AUTH_INTERNAL_TOKEN")

DOMAIN_PLAIN_NORMALIZED ==
    <<".","l","o","g","i","n",".","c","l","i","e","n","t",".","c","o","m">>

\* C9: the cookie domain of a built configuration, from the override or from
\* the per-environment default, contains ".", contains no "*" and starts
\* with "."; an override without "." or with "*" makes the construction
\* fail; a missing or blank override gives the environment default, which is
\* undefined for local and test.
C9_CookieDomain ==
    /\ (built.status = "returned" /\ built.locals.cookieDomain # Undefined) =>
          /\ includes(built.locals.cookieDomain, ".")
          /\ ~includes(built.locals.cookieDomain, "*")
          /\ Head(built.locals.cookieDomain) = "."
    /\ (Called /\ IsPadded(env.AUTH_COOKIE_DOMAIN, {DOMAIN_NODOTS, DOMAIN_WILDCARD}))
          => built.status = "threw"
    /\ (built.status = "returned" /\ IsPadded(env.AUTH_COOKIE_DOMAIN, {DOMAIN_PLAIN}))
          => built.locals.cookieDomain = DOMAIN_PLAIN_NORMALIZED
    /\ (built.status = "returned" /\ IsBlank(env.AUTH_COOKIE_DOMAIN)) =>
          /\ Tag \in {"preview", "dev", "qa", "production"}
                => built.locals.cookieDomain = DEFAULT_COOKIE_DOMAIN
          /\ LocalOrTest(Tag) => built.locals.cookieDomain = Undefined

\* a padded mixed-case override without leading dot was normalized
C9_Witness ==
    /\ built.status = "returned"
    /\ env.AUTH_COOKIE_DOMAIN = Pad(DOMAIN_PLAIN, 1)
    /\ built.locals.cookieDomain = DOMAIN_PLAIN_NORMALIZED

\* the crossSubDomainCookies option of the built configuration is enabled
CrossSubdomainEnabled ==
    /\ built.config.options.advanced.crossSubDomainCookies # UndefinedObject
    /\ built.config.options.advanced.crossSubDomainCookies.enabled

-----------------------------------------------------------------------------
(* Trusted origins of the built configuration                              *)

\* item is an element of the list
Contains(list, item) == \E i \in 1..Len(list) : list[i] = item

\* the explicit list the call was given, as parseList reads it
ExplicitList == parseList(env.AUTH_TRUSTED_ORIGINS)

\* the trusted origins of the returned configuration
TrustedOrigins == built.config.options.trustedOrigins

\* C11: with a non-empty explicit list that does not name it, the
\* environment-default origin of the resolved tag is not among the trusted
\* origins of the built configuration, whatever the cookie domain is, the
\* per-environment default cookie domain included.
C11_DefaultOriginAbsent ==
    (/\ built.status = "returned"
     /\ Len(ExplicitList) > 0
     /\ \A i \in 1..Len(TRUSTED_ORIGINS_BY_ENV(Tag)) :
            ~Contains(ExplicitList, TRUSTED_ORIGINS_BY_ENV(Tag)[i]))
    => \A i \in 1..Len(TRUSTED_ORIGINS_BY_ENV(Tag)) :
            ~Contains(TrustedOrigins, TRUSTED_ORIGINS_BY_ENV(Tag)[i])


HTTPS_PREFIX == <<"h","t","t","p","s",":","/","/">>
HTTPS_WILDCARD_PREFIX == <<"h","t","t","p","s",":","/","/","*",".">>

\* the list has no two equal entries
NoDuplicates(list) ==
    \A i, j \in 1..Len(list) : list[i] = list[j] => i = j

\* C12: the trusted origins of a built configuration contain https://<d> and
\* https://*.<d> whenever the cookie domain .<d> is present, and the four
\* localhost patterns whenever the tag is local or test, with an explicit
\* list as well as with the environment defaults; no entry occurs twice and
\* none is empty.
C12_DerivedAndLocalPatterns ==
    built.status = "returned" =>
        /\ built.locals.cookieDomain # Undefined =>
              /\ Head(built.locals.cookieDomain) = "."
              /\ Contains(TrustedOrigins,
                          HTTPS_PREFIX \o Tail(built.locals.cookieDomain))
              /\ Contains(TrustedOrigins,
                          HTTPS_WILDCARD_PREFIX \o Tail(built.locals.cookieDomain))
        /\ IsPadded(env.AUTH_COOKIE_DOMAIN, {DOMAIN_PLAIN}) =>
              /\ Contains(TrustedOrigins, ORIGIN_LOGIN)
              /\ Contains(TrustedOrigins, HTTPS_WILDCARD_PREFIX \o Tail(DOMAIN_PLAIN_NORMALIZED))
        /\ LocalOrTest(Tag) =>
              /\ Contains(TrustedOrigins, LOCALHOST_HTTP)
              /\ Contains(TrustedOrigins, LOCALHOST_HTTPS)
              /\ Contains(TrustedOrigins, LOOPBACK_HTTP)
              /\ Contains(TrustedOrigins, LOOPBACK_HTTPS)
        /\ NoDuplicates(TrustedOrigins)
        /\ \A i \in 1..Len(TrustedOrigins) :
              TrustedOrigins[i] # <<>> /\ TrustedOrigins[i] # Undefined

\* a test configuration with an explicit list and a cookie-domain override
\* has the explicit, the localhost and the domain-derived patterns
C12_Witness ==
    /\ built.status = "returned"
    /\ Tag = "test"
    /\ Len(ExplicitList) > 0
    /\ built.locals.cookieDomain = DOMAIN_PLAIN_NORMALIZED
    /\ Contains(TrustedOrigins, ORIGIN_PORTAL)
    /\ Contains(TrustedOrigins, LOCALHOST_HTTP)
    /\ Contains(TrustedOrigins, ORIGIN_LOGIN)

ORIGIN_APEX ==
    <<"h","t","t","p","s",":","/","/","b","o","l","e","t","r","i","c","s",".",
      "w","o","r","k","e","r","s",".","d","e","v">>

\* the entries of the list, as a set
Elements(list) == { list[i] : i \in 1..Len(list) }

\* the call was for dev, with no explicit trusted origins and no cookie-domain
\* override
DevDefaults ==
    /\ built.status = "returned"
    /\ Tag = "dev"
    /\ env.AUTH_TRUSTED_ORIGINS = Undefined
    /\ IsBlank(env.AUTH_COOKIE_DOMAIN)

\* C13: for dev with no explicit trusted origins and no cookie-domain
\* override, the trusted origins are exactly the default wildcard origin and
\* the two patterns derived from the default dev cookie domain, each once and
\* no localhost pattern; cross-subdomain cookies are enabled with the
\* default domain.
C13_DevEndToEnd ==
    DevDefaults =>
        /\ Elements(TrustedOrigins) = {DEFAULT_TRUSTED_ORIGIN, ORIGIN_APEX}
        /\ NoDuplicates(TrustedOrigins)
        /\ Len(TrustedOrigins) = 2
        /\ \A i \in 1..Len(LOCAL_DEVELOPMENT_ORIGINS) :
              ~Contains(TrustedOrigins, LOCAL_DEVELOPMENT_ORIGINS[i])
        /\ CrossSubdomainEnabled
        /\ built.config.options.advanced.crossSubDomainCookies.domain
              = DEFAULT_COOKIE_DOMAIN

\* dev was built from its defaults
C13_Witness ==
    /\ DevDefaults
    /\ env.AUTH_COOKIE_DOMAIN = Undefined
    /\ Contains(TrustedOrigins, ORIGIN_APEX)
    /\ CrossSubdomainEnabled

-----------------------------------------------------------------------------
(* Static tables of the built configuration                                *)

\* the rate limit of the returned configuration is window/max/enabled
RateLimitIs(window, max, enabled) ==
    built.config.options.rateLimit =
        [window |-> window, max |-> max, enabled |-> enabled]

\* C14: for each of the six tags the built configuration has the rate limit
\* of the static table and a session policy of updateAge 1800 s, freshAge
\* 900 s and expiresIn 7 days for production and 14 days otherwise, whatever
\* the other variables are.
C14_StaticTables ==
    built.status = "returned" =>
        /\ Tag = "local" => RateLimitIs(10, 300, FALSE)
        /\ Tag = "preview" => RateLimitIs(10, 120, TRUE)
        /\ Tag = "dev" => RateLimitIs(10, 90, TRUE)
        /\ Tag = "qa" => RateLimitIs(10, 80, TRUE)
        /\ Tag = "production" => RateLimitIs(10, 60, TRUE)
        /\ Tag = "test" => RateLimitIs(10, 60, FALSE)
        /\ Tag \in EnvironmentTags =>
              /\ built.config.options.session.updateAge = 1800
              /\ built.config.options.session.freshAge = 900
              /\ built.config.options.session.expiresIn =
                    IF Tag = "production" THEN 604800 ELSE 1209600

\* a preview configuration with an explicit list and a cookie-domain
\* override was built
C14_Witness ==
    /\ built.status = "returned"
    /\ Tag = "preview"
    /\ Len(ExplicitList) > 0
    /\ built.locals.cookieDomain = DOMAIN_PLAIN_NORMALIZED
    /\ RateLimitIs(10, 120, TRUE)
    /\ built.config.options.session.expiresIn = 1209600

-----------------------------------------------------------------------------
(* Memoized configuration                                                  *)
(*                                                                         *)
(* The memo map and its callers (src/auth/instance.ts,                     *)
(* src/middleware/cors.ts, src/index.ts) are not part of the sources at    *)
(* hand: they are modelled from the specification, sections 3, 4.4, 5, 7   *)
(* and 9: a map from the cacheKey of the environment tag to the computed   *)
(* configuration, populated lazily, whose entries are never replaced.      *)

\* the map with the value stored under the key
Put(memo, key, value) ==
    [k \in DOMAIN memo \cup {key} |-> IF k = key THEN value ELSE memo[k]]

\* the outcome of a lookup that found the configuration of the tag stored
Reused(memo, key, tag) ==
    [ status |-> "returned", error |-> <<>>,
      completed |-> <<"resolveAuthEnvironment">>,
      locals |-> [NoLocals EXCEPT !.resolvedEnv = tag],
      config |-> memo[key] ]

\* what a lookup that found nothing stored does with the outcome of
\* buildResolvedAuthConfig: a returned configuration is stored under its
\* cacheKey, a failed construction stores nothing
Built(memo, fresh) ==
    IF fresh.status = "returned"
    THEN [ outcome |-> fresh, hit |-> FALSE,
           memo |-> Put(memo, fresh.config.cacheKey, fresh.config) ]
    ELSE [ outcome |-> fresh, hit |-> FALSE, memo |-> memo ]

\* a lookup that builds the configuration anew every time and stores it
getAuthConfig_NoReuse(memo, bindings) ==
    CHOOSE found \in { Built(memo, fresh) :
                         fresh \in {buildResolvedAuthConfig(bindings)} } : TRUE

\* The memoized lookup: the configuration stored for the tag of the
\* Bindings, or else the one buildResolvedAuthConfig returns, which is
\* stored; a failed construction stores nothing.
getAuthConfig(memo, bindings) ==
    LET tag == resolveAuthEnvironment(bindings)
        key == <<ORG_SLUG, "-", tag>>
    IN  IF key \in DOMAIN memo
        THEN [ outcome |-> Reused(memo, key, tag), hit |-> TRUE, memo |-> memo ]
        ELSE CHOOSE found \in { Built(memo, fresh) :
                                  fresh \in {buildResolvedAuthConfig(bindings)} } :
                 TRUE

\* the response of the outermost boundary to an error thrown below it
InternalError ==
    [ status |-> 500, forwarded |-> FALSE,
      body |-> [success |-> FALSE, error |-> "Internal Server Error"] ]

ValidDev ==
    [ ENVIRONMENT |-> K_dev,
      BETTER_AUTH_SECRET |-> Repeat("s", MIN_SECRET_LENGTH),
      BETTER_AUTH_URL |-> URL_HTTPS,
      AUTH_INTERNAL_TOKEN |-> Repeat("t", MIN_TOKEN_LENGTH),
      AUTH_COOKIE_DOMAIN |-> Undefined,
      AUTH_TRUSTED_ORIGINS |-> Undefined ]

\* Bindings of the lookups of one process: dev and local, dev also with
\* explicit trusted origins, and dev without internal token, with a short
\* secret, with a base URL that is not http(s) and with a cookie domain
\* without dot
CacheInputs ==
    { ValidDev,
      [ValidDev EXCEPT !.AUTH_TRUSTED_ORIGINS = ORIGINS_EXPLICIT],
      [ValidDev EXCEPT !.ENVIRONMENT = K_local, !.AUTH_INTERNAL_TOKEN = Undefined],
      [ValidDev EXCEPT !.AUTH_INTERNAL_TOKEN = Undefined],
      [ValidDev EXCEPT !.BETTER_AUTH_SECRET = Repeat("s", MIN_SECRET_LENGTH - 1)],
      [ValidDev EXCEPT !.BETTER_AUTH_URL = URL_FTP],
      [ValidDev EXCEPT !.AUTH_COOKIE_DOMAIN = DOMAIN_NODOTS] }

CacheRequests ==
    [ method : {"GET", "OPTIONS"}, token : {Undefined},
      origin : {ORIGIN_PORTAL}, path : {PATH_SESSION} ]

\* one lookup with the Bindings: its outcome, the memo map after it and the
\* record of what was built and what failed
Lookup(bindings, found) ==
    LET key == <<ORG_SLUG, "-", resolveAuthEnvironment(bindings)>>
    IN  /\ env' = bindings
        /\ built' = found.outcome
        /\ cache' = found.memo
        /\ computed' =
              IF ~found.hit /\ found.outcome.status = "returned"
              THEN Put(computed, key,
                       IF key \in DOMAIN computed THEN computed[key] + 1 ELSE 1)
              ELSE computed
        /\ failed' =
              IF found.outcome.status = "threw"
              THEN failed \cup {[env |-> bindings, error |-> found.outcome.error]}
              ELSE failed

\* getTrustedOriginPatterns(env): the trusted origins of the memoized
\* configuration
GetTrustedOriginPatterns ==
    \E bindings \in CacheInputs :
        \E found \in {getAuthConfig(cache, bindings)} :
            /\ Lookup(bindings, found)
            /\ request' = NoRequest
            /\ response' = NoResponse
            /\ UNCHANGED <<resolvedEnv, mail, caught, calls, lookups>>

\* a request to the identity route namespace, under the memoized
\* configuration of the Bindings it comes with
HandleRequest ==
    \E bindings \in CacheInputs :
        \E found \in {getAuthConfig(cache, bindings)} :
            \E req \in CacheRequests, identityStatus \in {200, 401} :
                /\ Lookup(bindings, found)
                /\ request' = req
                /\ response' =
                      IF found.outcome.status = "threw" THEN InternalError
                      ELSE handleAuthRequest(found.outcome.config, req,
                                             identityStatus)
                /\ UNCHANGED <<resolvedEnv, mail, caught, calls, lookups>>

CacheInit ==
    /\ env = NoBindings
    /\ NothingCalled

CacheNext == GetTrustedOriginPatterns \/ HandleRequest

CacheSpec == CacheInit /\ [][CacheNext]_vars

-----------------------------------------------------------------------------
(* Properties of the memoized configuration                                *)

\* the last lookup returned a configuration
Found == built.status = "returned"

\* the last lookup found the configuration stored and built nothing
FoundStored == Found /\ built.completed = <<"resolveAuthEnvironment">>

C16_ExplicitOriginsServed ==
    (Found /\ request = NoRequest) =>
        \A i \in 1..Len(ExplicitList) : Contains(TrustedOrigins, ExplicitList[i])

\* C17: a construction that fails at any validation step yields only the
\* failure: no configuration is returned, the memo map is left as it was and
\* holds nothing for the tag, a request that came with the Bindings is not
\* forwarded, and every later lookup with Bindings that failed before fails
\* again with the same error.
C17_FailureOnly ==
    /\ [](built.status = "threw" =>
            /\ built.config = NoConfig
            /\ <<ORG_SLUG, "-", Tag>> \notin DOMAIN cache
            /\ Answered => (~response.forwarded /\ response.status = 500))
    /\ [][built'.status = "threw" => cache' = cache]_vars
    /\ [](\A failure \in failed :
            (Called /\ env = failure.env) =>
                (built.status = "threw" /\ built.error = failure.error))

-----------------------------------------------------------------------------
(* Email delivery                                                          *)

\* number of entries of the array the mail service answers with
MaxResults == 2

\* what the mail service does with a message: fetch throws, or it responds
\* with a status that is ok or not and a body that is not JSON, JSON that
\* is no array, or an array of send results
FetchThrows ==
    [fetch |-> "throws", ok |-> FALSE, json |-> "invalid", results |-> <<>>]

Responds(ok, json, results) ==
    [fetch |-> "responds", ok |-> ok, json |-> json, results |-> results]

\* sendMandrillTemplate(apiKey, message): the parsed array of send results,
\* or the Error thrown
sendMandrillTemplate(delivery) ==
    IF delivery.fetch = "throws" THEN Threw(<<"fetch failed">>)
    ELSE IF ~delivery.ok THEN Threw(<<"Mandrill API error">>)
    ELSE IF delivery.json = "invalid"
    THEN Threw(<<"Mandrill API returned invalid JSON">>)
    ELSE IF delivery.json # "array"
    THEN Threw(<<"result.filter is not a function">>)
    ELSE IF \E i \in 1..Len(delivery.results) :
                delivery.results[i] \in {"rejected", "invalid"}
    THEN Threw(<<"Mandrill send failed">>)
    ELSE Returned(delivery.results)

\* the promise of a send function once settled, and the line it logged
Settled(state, level, message) ==
    [state |-> state, level |-> level, message |-> message]

\* sendPasswordResetEmail rethrowing what it caught
sendPasswordResetEmail_Rethrow(delivery) ==
    IF sendMandrillTemplate(delivery).threw
    THEN Settled("rejected", "error",
                 "[Mandrill] Failed to send password reset email")
    ELSE Settled("fulfilled", "log",
                 "[Mandrill] Password reset email sent successfully")

sendPasswordResetEmail(delivery) ==
    IF sendMandrillTemplate(delivery).threw
    THEN Settled("fulfilled", "error",
                 "[Mandrill] Failed to send password reset email")
    ELSE Settled("fulfilled", "log",
                 "[Mandrill] Password reset email sent successfully")

sendOtpEmail(delivery) ==
    IF sendMandrillTemplate(delivery).threw
    THEN Settled("fulfilled", "error", "[Mandrill] Failed to send OTP email")
    ELSE Settled("fulfilled", "log", "[Mandrill] OTP email sent successfully")

sendOrganizationInvitationEmail(delivery) ==
    IF sendMandrillTemplate(delivery).threw
    THEN Settled("fulfilled", "error",
                 "[Mandrill] Failed to send org invitation email")
    ELSE Settled("fulfilled", "log",
                 "[Mandrill] Organization invitation email sent successfully")

\* a callback returned without sending: the line it logged
Skipped(message) ==
    [callback |-> "returned", promise |-> "none", registered |-> "none",
     log |-> <<message>>]

\* a callback returned after it started the send and handed the promise to
\* executionContext.waitUntil or, without one, attached a catch handler
Started(waitUntil) ==
    [callback |-> "returned", promise |-> "pending",
     registered |-> IF waitUntil THEN "waitUntil" ELSE "catch",
     log |-> <<>>]

\* emailAndPassword.sendResetPassword
sendResetPassword(m) ==
    IF ~m.apiKey
    THEN Skipped("[Password Reset] MANDRILL_API_KEY is not configured")
    ELSE Started(m.waitUntil)

\* emailOTP.sendVerificationOTP
sendVerificationOTP(m) ==
    IF ~m.apiKey
    THEN Skipped("[Email OTP] MANDRILL_API_KEY is not configured; OTP email skipped")
    ELSE Started(m.waitUntil)

\* organization.sendInvitationEmail
sendInvitationEmail(m) ==
    IF ~m.apiKey
    THEN Skipped("[Org Invitation] MANDRILL_API_KEY is not configured; invitation email skipped")
    ELSE IF ~m.recipient
    THEN Skipped("[Org Invitation] Missing recipient email; invitation email skipped")
    ELSE Started(m.waitUntil)

\* the callback of the trigger
Callback(m) ==
    CASE m.trigger = "reset" -> sendResetPassword(m)
      [] m.trigger = "otp" -> sendVerificationOTP(m)
      [] m.trigger = "invitation" -> sendInvitationEmail(m)

\* the send function of the trigger
Send(m) ==
    CASE m.trigger = "reset" -> sendPasswordResetEmail(m.delivery)
      [] m.trigger = "otp" -> sendOtpEmail(m.delivery)
      [] m.trigger = "invitation" -> sendOrganizationInvitationEmail(m.delivery)

\* the line the catch handler attached by the callback logs
RejectionLine(m) ==
    CASE m.trigger = "reset" -> "[Password Reset] Unhandled email promise rejection"
      [] m.trigger = "otp" -> "[Email OTP] Unhandled email promise rejection"
      [] m.trigger = "invitation" -> "[Org Invitation] Unhandled email promise rejection"

SendStatuses == {"sent", "queued", "rejected", "invalid"}

\* the arrays of at most MaxResults send results
ResultLists ==
    UNION { [1..n -> SendStatuses] : n \in 0..MaxResults }

Deliveries ==
    {FetchThrows}
    \cup { Responds(ok, json, <<>>) :
             ok \in BOOLEAN, json \in {"invalid", "object"} }
    \cup { Responds(ok, "array", results) :
             ok \in BOOLEAN, results \in ResultLists }

\* the mail service accepts the message
Accepted == Responds(TRUE, "array", <<"sent">>)

\* an email trigger before its callback runs: which trigger, whether
\* MANDRILL_API_KEY is set, whether the execution context has waitUntil,
\* whether the invitation names a recipient, and what the mail service will do
MailInputs ==
    { [ trigger |-> trigger, apiKey |-> apiKey, waitUntil |-> waitUntil,
        recipient |-> recipient, delivery |-> delivery,
        callback |-> "none", promise |-> "none", registered |-> "none",
        log |-> <<>>, response |-> 0 ] :
      trigger \in {"reset", "otp", "invitation"}, apiKey \in BOOLEAN,
      waitUntil \in BOOLEAN, recipient \in BOOLEAN, delivery \in Deliveries }

MailInit ==
    /\ env = NoBindings
    /\ resolvedEnv = "undefined"
    /\ built = NotBuilt
    /\ request = NoRequest
    /\ response = NoResponse
    /\ cache = EmptyCache
    /\ computed = EmptyCache
    /\ failed = {}
    /\ mail \in MailInputs
    /\ caught = NothingCaught
    /\ calls = <<>>
    /\ lookups = NoLookups

\* The identity subsystem calls the callback of the trigger and, when it has
\* returned, answers the request; the send promise is not awaited.
Trigger ==
    /\ mail.callback = "none"
    /\ LET outcome == Callback(mail)
       IN  mail' = [mail EXCEPT !.callback = outcome.callback,
                                !.promise = outcome.promise,
                                !.registered = outcome.registered,
                                !.log = outcome.log,
                                !.response = IF outcome.callback = "returned"
                                             THEN 200 ELSE 500]
    /\ UNCHANGED <<env, resolvedEnv, built, request, response, cache, computed,
                   failed, caught, calls, lookups>>

\* The send promise settles after the response: the send function logs, and
\* a rejection reaches the catch handler when the callback attached one.
Settle ==
    /\ mail.promise = "pending"
    /\ LET sent == Send(mail)
       IN  mail' = [mail EXCEPT
                      !.promise = sent.state,
                      !.log = IF sent.state = "rejected" /\ mail.registered = "catch"
                              THEN @ \o <<sent.message, RejectionLine(mail)>>
                              ELSE Append(@, sent.message)]
    /\ UNCHANGED <<env, resolvedEnv, built, request, response, cache, computed,
                   failed, caught, calls, lookups>>

MailNext == Trigger \/ Settle

MailSpec == MailInit /\ [][MailNext]_vars

-----------------------------------------------------------------------------
(* Properties of email delivery                                            *)

\* the callback of the same trigger when the mail service accepts the message
AcceptedRun == Callback([mail EXCEPT !.delivery = Accepted])

FailureLines ==
    { "[Mandrill] Failed to send password reset email",
      "[Mandrill] Failed to send OTP email",
      "[Mandrill] Failed to send org invitation email" }

\* C18: for each email trigger the callback returns, and the request is
\* answered, the same way whatever the mail service does with the message
\* (accepts it, rejects it, answers with invalid data, or the network call
\* throws): the send promise is never rejected, a failed delivery only adds
\* a line to the log, and the response equals that of the run in which the
\* mail service accepts.
C18_DeliveryInvisible ==
    mail.callback # "none" =>
        /\ mail.callback = "returned"
        /\ mail.callback = AcceptedRun.callback
        /\ mail.registered = AcceptedRun.registered
        /\ mail.response = 200
        /\ mail.promise # "rejected"
        /\ (mail.promise = "pending") = (AcceptedRun.promise = "pending"
                                         /\ mail.promise # "fulfilled")
        /\ (mail.promise = "fulfilled" /\ mail.delivery # Accepted
            /\ (mail.delivery.fetch = "throws" \/ ~mail.delivery.ok
                \/ mail.delivery.json # "array"
                \/ \E i \in 1..Len(mail.delivery.results) :
                      mail.delivery.results[i] \in {"rejected", "invalid"}))
           => /\ mail.log[Len(mail.log)] \in FailureLines
              /\ Len(mail.log) = 1

\* an invitation whose network call threw was answered and its promise
\* fulfilled
C18_Witness ==
    /\ mail.trigger = "invitation"
    /\ mail.delivery = FetchThrows
    /\ mail.promise = "fulfilled"
    /\ mail.response = 200
    /\ mail.log = <<"[Mandrill] Failed to send org invitation email">>

-----------------------------------------------------------------------------
(* Error classifier                                                        *)
(*                                                                         *)
(* isBetterAuthRedirectError and isJwksDecryptError (src/auth/routes.ts)   *)
(* are exercised by src/auth/routes.test.ts but are not part of the        *)
(* sources at hand: they are modelled from the specification, section 4.6. *)
(* The candidates and messages are those of the tests, and two more.       *)

MSG_PHRASE ==
    <<"F","a","i","l","e","d"," ","t","o"," ","d","e","c","r","y","p","t"," ",
      "p","r","i","v","a","t","e"," ","k","e","y">>
MSG_JWKS ==
    <<"J","W","K","S"," ","e","r","r","o","r",":"," ","F","a","i","l","e","d",
      " ","t","o"," ","d","e","c","r","y","p","t"," ","p","r","i","v","a",
      "t","e"," ","k","e","y">>
MSG_BETTER_AUTH ==
    <<"B","e","t","t","e","r","A","u","t","h","E","r","r","o","r",":"," ","d",
      "e","c","r","y","p","t"," ","p","r","i","v","a","t","e"," ","k","e",
      "y">>
MSG_UPPER ==
    <<"B","e","t","t","e","r","A","u","t","h","E","r","r","o","r",":"," ","F",
      "a","i","l","e","d"," ","t","o"," ","D","E","C","R","Y","P","T"," ",
      "P","R","I","V","A","T","E"," ","K","E","Y">>
MSG_FROM_DB ==
    <<"B","e","t","t","e","r","A","u","t","h","E","r","r","o","r",":"," ","c",
      "o","u","l","d"," ","n","o","t"," ","d","e","c","r","y","p","t"," ",
      "p","r","i","v","a","t","e"," ","k","e","y"," ","f","r","o","m"," ",
      "D","B">>
MSG_INVALID_TOKEN ==
    <<"B","e","t","t","e","r","A","u","t","h","E","r","r","o","r",":"," ","i",
      "n","v","a","l","i","d"," ","t","o","k","e","n">>
MSG_SESSION ==
    <<"F","a","i","l","e","d"," ","t","o"," ","d","e","c","r","y","p","t"," ",
      "s","e","s","s","i","o","n">>
MSG_WRONG ==
    <<"S","o","m","e","t","h","i","n","g"," ","w","e","n","t"," ","w","r","o",
      "n","g">>
MSG_RANDOM == <<"r","a","n","d","o","m"," ","e","r","r","o","r">>
MSG_UNRELATED == <<"u","n","r","e","l","a","t","e","d">>
MSG_KEY_ONLY ==
    <<"m","i","s","s","i","n","g"," ","p","r","i","v","a","t","e"," ","k","e",
      "y">>
MSG_REVERSED ==
    <<"p","r","i","v","a","t","e"," ","k","e","y",":"," ","c","a","n","n","o",
      "t"," ","D","e","c","r","y","p","t">>
NEEDLE_DECRYPT == <<"d","e","c","r","y","p","t">>
NEEDLE_PRIVATE_KEY == <<"p","r","i","v","a","t","e"," ","k","e","y">>

\* the needle occurs in the string: String.prototype.includes
includesString(s, needle) ==
    \E i \in 1..(Len(s) - Len(needle) + 1) :
        SubSeq(s, i, i + Len(needle) - 1) = needle

\* a statusCode that is a number, one that is not (a string of digits), none
NumberCode(value) == [isNumber |-> TRUE, value |-> value]
StringCode(value) == [isNumber |-> FALSE, value |-> value]
NoCode == [isNumber |-> FALSE, value |-> 0]

\* a caught value: its type, and for an object its name, statusCode, headers
\* and, for an Error or a string, the message text
Candidate(type, name, statusCode, headers, message) ==
    [ type |-> type, name |-> name, statusCode |-> statusCode,
      headers |-> headers, message |-> message ]

\* isBetterAuthRedirectError with the bounds of the range excluded
isBetterAuthRedirectError_Exclusive(candidate) ==
    /\ candidate.type \in {"object", "Error"}
    /\ candidate.name = "APIError"
    /\ candidate.statusCode.isNumber
    /\ candidate.statusCode.value > 300
    /\ candidate.statusCode.value < 399
    /\ candidate.headers

isBetterAuthRedirectError(candidate) ==
    /\ candidate.type \in {"object", "Error"}
    /\ candidate.name = "APIError"
    /\ candidate.statusCode.isNumber
    /\ candidate.statusCode.value >= 300
    /\ candidate.statusCode.value <= 399
    /\ candidate.headers

\* the message text of an Error instance or of a raw string, else none
messageOf(candidate) ==
    IF candidate.type \in {"Error", "string"} THEN candidate.message ELSE <<>>

\* isJwksDecryptError comparing the message as it is written
isJwksDecryptError_CaseSensitive(candidate) ==
    LET message == messageOf(candidate)
    IN  \/ /\ includesString(message, NEEDLE_DECRYPT)
           /\ includesString(message, NEEDLE_PRIVATE_KEY)
        \/ message = MSG_PHRASE

isJwksDecryptError(candidate) ==
    LET message == messageOf(candidate)
        lowered == toLowerCase(message)
    IN  \/ /\ includesString(lowered, NEEDLE_DECRYPT)
           /\ includesString(lowered, NEEDLE_PRIVATE_KEY)
        \/ message = MSG_PHRASE

\* a value that is no object: null, undefined, a number, a boolean
Primitive(type) == Candidate(type, "absent", NoCode, FALSE, <<>>)

StatusCodes ==
    { NumberCode(value) :
        value \in {200, 299, 300, 301, 302, 307, 308, 399, 400, 500} }
    \cup {NoCode, StringCode(302)}

\* the values given to isBetterAuthRedirectError
RedirectCandidates ==
    { Primitive(type) : type \in {"null", "undefined", "number", "boolean"} }
    \cup { Candidate("string", "absent", NoCode, FALSE, MSG_RANDOM) }
    \cup { Candidate(type, name, statusCode, headers, <<>>) :
             type \in {"object", "Error"},
             name \in {"absent", "APIError", "Error"},
             statusCode \in StatusCodes, headers \in BOOLEAN }

Messages ==
    { <<>>, MSG_PHRASE, MSG_JWKS, MSG_BETTER_AUTH, MSG_UPPER, MSG_FROM_DB,
      MSG_INVALID_TOKEN, MSG_SESSION, MSG_WRONG, MSG_RANDOM, MSG_UNRELATED,
      MSG_KEY_ONLY, MSG_REVERSED }

\* the values given to isJwksDecryptError
DecryptCandidates ==
    { Primitive(type) : type \in {"null", "undefined", "number"} }
    \cup { Candidate("string", "absent", NoCode, FALSE, message) :
             message \in Messages }
    \cup { Candidate("Error", name, NoCode, FALSE, message) :
             name \in {"Error", "APIError"}, message \in Messages }
    \cup { Candidate("object", "absent", NoCode, FALSE, message) :
             message \in Messages }

Unclassified(candidate) ==
    [ candidate |-> candidate, checked |-> {}, redirect |-> FALSE,
      decrypt |-> FALSE ]

ErrorInit ==
    /\ env = NoBindings
    /\ resolvedEnv = "undefined"
    /\ built = NotBuilt
    /\ request = NoRequest
    /\ response = NoResponse
    /\ cache = EmptyCache
    /\ computed = EmptyCache
    /\ failed = {}
    /\ mail = NoMail
    /\ caught \in { Unclassified(candidate) :
                      candidate \in RedirectCandidates \cup DecryptCandidates }
    /\ calls = <<>>
    /\ lookups = NoLookups

\* isBetterAuthRedirectError(caught value)
IsRedirectError ==
    /\ "redirect" \notin caught.checked
    /\ caught' = [caught EXCEPT
                    !.checked = @ \cup {"redirect"},
                    !.redirect = isBetterAuthRedirectError(caught.candidate)]
    /\ UNCHANGED <<env, resolvedEnv, built, request, response, cache, computed,
                   failed, mail, calls, lookups>>

\* isJwksDecryptError(caught value)
IsDecryptError ==
    /\ "decrypt" \notin caught.checked
    /\ caught' = [caught EXCEPT
                    !.checked = @ \cup {"decrypt"},
                    !.decrypt = isJwksDecryptError(caught.candidate)]
    /\ UNCHANGED <<env, resolvedEnv, built, request, response, cache, computed,
                   failed, mail, calls, lookups>>

\* The outermost response boundary (src/index.ts) is not part of the
\* sources at hand: it is modelled from the specification, section 7, and
\* from the response its test expects.

INTERNAL_ERROR_CODE_Http == 500

INTERNAL_ERROR_CODE == 7000

MSG_INTERNAL ==
    <<"I","n","t","e","r","n","a","l"," ","S","e","r","v","e","r"," ","E",
      "r","r","o","r">>

\* a boundary that reports the message of what it caught
onError_Leaky(candidate) ==
    [ status |-> 500, rejected |-> FALSE,
      body |-> [ success |-> FALSE,
                 errors |-> << [ code |-> INTERNAL_ERROR_CODE,
                                 message |-> messageOf(candidate) ] >> ] ]

\* the error handler of the application: whatever was thrown below it is
\* answered with the generic body, nothing is thrown on
onError(candidate) ==
    [ status |-> 500, rejected |-> FALSE,
      body |-> [ success |-> FALSE,
                 errors |-> << [ code |-> INTERNAL_ERROR_CODE,
                                 message |-> MSG_INTERNAL ] >> ] ]

\* a caught value that neither predicate recognizes is thrown on by the
\* route and reaches the error handler of the application
OnError ==
    /\ response = NoResponse
    /\ ~isBetterAuthRedirectError(caught.candidate)
    /\ ~isJwksDecryptError(caught.candidate)
    /\ response' = onError(caught.candidate)
    /\ UNCHANGED <<env, resolvedEnv, built, request, cache, computed, failed,
                   mail, caught, calls, lookups>>

ErrorNext == IsRedirectError \/ IsDecryptError \/ OnError

ErrorSpec == ErrorInit /\ [][ErrorNext]_vars

-----------------------------------------------------------------------------
(* Properties of the error classifier                                      *)

\* the caught value is an object of the name and statusCode, with or
\* without headers
IsObject(name, value, headers) ==
    caught.candidate =
        Candidate("object", name, NumberCode(value), headers, <<>>)

\* C19: isBetterAuthRedirectError is true exactly for a non-null object
\* whose name is "APIError", whose statusCode is a number from 300 to 399 and
\* which has headers; it is false for null, undefined, values that are no
\* objects, another or no name, a status below 300 or from 400 on, and
\* without headers.
C19_RedirectError ==
    "redirect" \in caught.checked =>
        /\ caught.redirect <=>
              /\ caught.candidate.type \notin
                    {"null", "undefined", "string", "number", "boolean"}
              /\ caught.candidate.name = "APIError"
              /\ caught.candidate.statusCode.isNumber
              /\ caught.candidate.statusCode.value \in 300..399
              /\ caught.candidate.headers
        /\ \A value \in {300, 301, 302, 307, 308, 399} :
              IsObject("APIError", value, TRUE) => caught.redirect
        /\ \A value \in {200, 299, 400, 500} :
              IsObject("APIError", value, TRUE) => ~caught.redirect
        /\ IsObject("APIError", 302, FALSE) => ~caught.redirect
        /\ IsObject("absent", 302, TRUE) => ~caught.redirect
        /\ IsObject("Error", 302, TRUE) => ~caught.redirect

\* an APIError of status 399 with headers was classified a redirect
C19_Witness ==
    /\ "redirect" \in caught.checked
    /\ IsObject("APIError", 399, TRUE)
    /\ caught.redirect

\* the messages in which "decrypt" and "private key" both occur, in any case
DecryptMessages ==
    {MSG_PHRASE, MSG_JWKS, MSG_BETTER_AUTH, MSG_UPPER, MSG_FROM_DB, MSG_REVERSED}

\* C20: isJwksDecryptError of an Error or a string is true exactly when the
\* message, compared without regard to case, contains both "decrypt" and
\* "private key", or is "Failed to decrypt private key"; it is false for
\* null, undefined, the empty string, objects that are no Errors and
\* messages with only one of the two.
C20_DecryptError ==
    "decrypt" \in caught.checked =>
        /\ caught.candidate.type \in {"Error", "string"} =>
              (caught.decrypt <=> caught.candidate.message \in DecryptMessages)
        /\ caught.candidate.type \notin {"Error", "string"} => ~caught.decrypt
        /\ caught.candidate.message \in {<<>>, MSG_SESSION, MSG_KEY_ONLY}
              => ~caught.decrypt

\* an Error whose message has the two substrings in upper case was
\* classified a decrypt error
C20_Witness ==
    /\ "decrypt" \in caught.checked
    /\ caught.candidate.type = "Error"
    /\ caught.candidate.message = MSG_UPPER
    /\ caught.decrypt

-----------------------------------------------------------------------------
(* Properties of the outermost response boundary                           *)

\* the caught value reached the error handler of the application
Handled == response # NoResponse /\ caught # NothingCaught

\* C21: a failure that is neither a recognized redirect error nor a
\* recognized decrypt error and reaches the outermost boundary is answered
\* with status 500 and the generic JSON body (success false, errors[0] =
\* code 7000, message "Internal Server Error"); the body does not contain
\* the message of the failure, and the failure is not thrown on.
C21_GenericInternalError ==
    Handled =>
        /\ response.status = 500
        /\ response.body.success = FALSE
        /\ Len(response.body.errors) = 1
        /\ response.body.errors[1] = [code |-> 7000, message |-> MSG_INTERNAL]
        /\ messageOf(caught.candidate) # <<>> =>
              ~includesString(response.body.errors[1].message,
                              messageOf(caught.candidate))
        /\ ~response.rejected

\* an Error with a message of its own was answered by the boundary
C21_Witness ==
    /\ Handled
    /\ caught.candidate.type = "Error"
    /\ caught.candidate.message = MSG_SESSION
    /\ response.status = 500

-----------------------------------------------------------------------------
(* CORS middleware of the routes outside the identity namespace            *)
(*                                                                         *)
(* The middleware (src/middleware/cors.ts) is not part of the sources at   *)
(* hand: it is modelled from the specification, section 4.5, with the      *)
(* requests of its integration tests.                                      *)

PATH_HEALTHZ == <<"/","h","e","a","l","t","h","z">>
PATH_ROOT == <<"/">>

NoHeaders == [name \in {} |-> Undefined]

\* the CORS response headers that reflect the origin
Reflected(origin) ==
    [name \in {"Access-Control-Allow-Origin"} |-> origin]

\* a middleware that reflects whatever Origin the request carries
corsMiddleware_ReflectAny(trustedOrigins, req, next) ==
    IF ~Truthy(req.origin)
    THEN [ status |-> next, forwarded |-> TRUE, headers |-> NoHeaders ]
    ELSE IF req.method = "OPTIONS"
    THEN [ status |-> 204, forwarded |-> FALSE,
           headers |-> Reflected(req.origin) ]
    ELSE [ status |-> next, forwarded |-> TRUE,
           headers |-> Reflected(req.origin) ]

\* The middleware: an untrusted or absent Origin leaves the request to the
\* route without CORS headers; a trusted one is reflected, on the 204 that
\* answers a preflight or on the response of the route
corsMiddleware(trustedOrigins, req, next) ==
    IF ~isTrustedOrigin(req.origin, trustedOrigins)
    THEN [ status |-> next, forwarded |-> TRUE, headers |-> NoHeaders ]
    ELSE IF req.method = "OPTIONS"
    THEN [ status |-> 204, forwarded |-> FALSE,
           headers |-> Reflected(req.origin) ]
    ELSE [ status |-> next, forwarded |-> TRUE,
           headers |-> Reflected(req.origin) ]

\* statuses the routes outside the identity namespace answer with
RouteStatuses == {200, 404}

CorsRequests ==
    [ method : Methods, token : {Undefined}, origin : OriginHeaders,
      path : {PATH_HEALTHZ, PATH_ROOT} ]

\* a request to a route outside the identity namespace, under the trusted
\* origins of the built configuration
Cors ==
    /\ built.status = "returned"
    /\ request = NoRequest
    /\ \E req \in CorsRequests, next \in RouteStatuses :
           /\ request' = req
           /\ response' = corsMiddleware(built.config.options.trustedOrigins,
                                         req, next)
    /\ UNCHANGED <<env, resolvedEnv, built, cache, computed, failed, mail,
                   caught, calls, lookups>>

CorsInit ==
    /\ env \in GatewayInputs
    /\ NothingCalled

CorsNext == Build \/ Cors

CorsSpec == CorsInit /\ [][CorsNext]_vars

-----------------------------------------------------------------------------
(* Properties of the CORS middleware                                       *)

\* the Origin of the answered request matches a pattern of the trusted
\* origins of the configuration
OriginTrusted ==
    /\ request.origin # Undefined
    /\ \E i \in 1..Len(built.config.options.trustedOrigins) :
           matchesOriginPattern(request.origin,
                                built.config.options.trustedOrigins[i])

\* the response carries Access-Control-Allow-Origin with the request's Origin
OriginReflected ==
    /\ "Access-Control-Allow-Origin" \in DOMAIN response.headers
    /\ response.headers["Access-Control-Allow-Origin"] = request.origin

\* C22: for a request to a route outside the identity namespace, the CORS
\* middleware sets Access-Control-Allow-Origin to the request's Origin
\* exactly when the Origin matches the trusted origins (among them
\* http://localhost with any port in local and test); an OPTIONS preflight
\* is then answered 204 with the reflected header; a request with an
\* untrusted or no Origin gets no CORS headers and is processed by the route.
C22_CorsReflectsTrusted ==
    Answered =>
        /\ OriginReflected <=> OriginTrusted
        /\ (LocalOrTest(Tag) /\ request.origin = ORIGIN_LOCALHOST)
              => OriginReflected
        /\ (Tag = "dev" /\ env.AUTH_TRUSTED_ORIGINS = Undefined
            /\ request.origin = ORIGIN_APP) => OriginReflected
        /\ request.origin \in {Undefined, ORIGIN_EVIL} => ~OriginReflected
        /\ (OriginTrusted /\ request.method = "OPTIONS")
              => response.status = 204 /\ OriginReflected
        /\ ~OriginTrusted
              => /\ DOMAIN response.headers = {}
                 /\ response.forwarded
                 /\ response.status \in RouteStatuses

\* a preflight from http://localhost:3000 in local was answered 204 with
\* the origin reflected
C22_Witness ==
    /\ Answered
    /\ RequestIs("local", "OPTIONS", PATH_HEALTHZ)
    /\ request.origin = ORIGIN_LOCALHOST
    /\ response.status = 204
    /\ OriginReflected

-----------------------------------------------------------------------------
(* Admin organizations (src/endpoints/admin-organizations.ts)              *)

\* a JavaScript number: an integer or NaN
Num(value) == [nan |-> FALSE, value |-> value]
NaN == [nan |-> TRUE, value |-> 0]

\* Math.max and Math.min of two numbers: NaN when one of them is NaN
MathMax(a, b) ==
    IF a.nan \/ b.nan THEN NaN
    ELSE Num(IF a.value >= b.value THEN a.value ELSE b.value)

MathMin(a, b) ==
    IF a.nan \/ b.nan THEN NaN ELSE Num(Min(a.value, b.value))

\* (a - 1) * b
Offset(a, b) ==
    IF a.nan \/ b.nan THEN NaN ELSE Num((a.value - 1) * b.value)

\* Math.ceil(a / b) of a count a and a number b that is NaN or positive
CeilDiv(a, b) ==
    IF b.nan THEN NaN ELSE Num((a + b.value - 1) \div b.value)

\* the value of a decimal digit
DigitValue(c) ==
    CHOOSE n \in 0..9 : <<"0","1","2","3","4","5","6","7","8","9">>[n + 1] = c

RECURSIVE leadingDigits(_)
leadingDigits(s) ==
    IF s # <<>> /\ Head(s) \in Digits
    THEN <<Head(s)>> \o leadingDigits(Tail(s))
    ELSE <<>>

RECURSIVE decimal(_)
decimal(digits) ==
    IF digits = <<>> THEN 0
    ELSE 10 * decimal(SubSeq(digits, 1, Len(digits) - 1))
         + DigitValue(digits[Len(digits)])

\* parseInt(s, 10): white space is skipped, then a sign and the longest run
\* of digits are read; NaN when there is no digit
parseInt(s) ==
    LET t == trimStart(s)
        signed == t # <<>> /\ Head(t) \in {"-", "+"}
        digits == leadingDigits(IF signed THEN Tail(t) ELSE t)
    IN  IF digits = <<>> THEN NaN
        ELSE IF signed /\ Head(t) = "-" THEN Num(-decimal(digits))
        ELSE Num(decimal(digits))

\* searchParams.get(name) ?? fallback
OrElse(value, fallback) == IF value = Undefined THEN fallback ELSE value

NoSession == UndefinedObject
NoUser == UndefinedObject

\* verifyAdminRole that asks for a session user only
verifyAdminRole_AnyUser(session) ==
    IF session = NoSession \/ session.user = NoUser
    THEN [isAdmin |-> FALSE, error |-> "Not authenticated"]
    ELSE [isAdmin |-> TRUE, error |-> "none"]

verifyAdminRole(session) ==
    IF session = NoSession \/ session.user = NoUser
    THEN [isAdmin |-> FALSE, error |-> "Not authenticated"]
    ELSE IF session.user.role # "admin"
    THEN [isAdmin |-> FALSE, error |-> "Not authorized"]
    ELSE [isAdmin |-> TRUE, error |-> "none"]

\* the response to a request that is not an admin's; nothing is queried
Denied(adminCheck) ==
    [ response |->
        [ status |-> IF adminCheck.error = "Not authenticated" THEN 401 ELSE 403,
          body |-> [error |-> adminCheck.error] ],
      calls |-> <<>> ]

\* adminOrganizationsRouter.get("/"): db.total organizations are stored;
\* a query throws when the database fails, and findMany may throw when it
\* is given a skip or take that is NaN
listOrganizations(req, db) ==
    LET adminCheck == verifyAdminRole(req.session)
        page == MathMax(Num(1), parseInt(OrElse(req.page, <<"1">>)))
        limit == MathMin(Num(100),
                         MathMax(Num(1), parseInt(OrElse(req.limit, <<"5","0">>))))
        offset == Offset(page, limit)
        count == [op |-> "count"]
        findMany == [op |-> "findMany", skip |-> offset, take |-> limit]
        failure == [ status |-> 500,
                     body |-> [error |-> "Failed to list organizations"] ]
    IN  IF ~adminCheck.isAdmin THEN Denied(adminCheck)
        ELSE IF db.fails = "count"
        THEN [ response |-> failure, calls |-> <<count>> ]
        ELSE IF db.fails = "find"
                \/ (db.strict /\ (offset.nan \/ limit.nan))
        THEN [ response |-> failure, calls |-> <<count, findMany>> ]
        ELSE [ response |->
                 [ status |-> 200,
                   body |-> [ success |-> TRUE,
                              pagination |->
                                [ page |-> page, limit |-> limit,
                                  total |-> db.total,
                                  totalPages |-> CeilDiv(db.total, limit) ] ] ],
               calls |-> <<count, findMany>> ]

\* adminOrganizationsRouter.get("/:id")
getOrganization(req, db) ==
    LET adminCheck == verifyAdminRole(req.session)
        findUnique == [op |-> "findUnique", id |-> req.id]
    IN  IF ~adminCheck.isAdmin THEN Denied(adminCheck)
        ELSE IF db.fails = "find"
        THEN [ response |->
                 [ status |-> 500,
                   body |-> [error |-> "Failed to get organization"] ],
               calls |-> <<findUnique>> ]
        ELSE IF req.id \notin db.ids
        THEN [ response |->
                 [ status |-> 404, body |-> [error |-> "Organization not found"] ],
               calls |-> <<findUnique>> ]
        ELSE [ response |->
                 [ status |-> 200,
                   body |-> [success |-> TRUE, result |-> [id |-> req.id]] ],
               calls |-> <<findUnique>> ]

\* the sessions of the requests: none, one without user, and users with
\* and without a role
Sessions ==
    {NoSession, [user |-> NoUser]}
    \cup { [user |-> [id |-> "u1", role |-> role]] :
             role \in {"admin", "user", "undefined", "Admin", "owner"} }

\* values of the page and limit query parameters
PageInputs ==
    { Undefined, <<>>, <<"0">>, <<"1">>, <<"3">>, <<"-","2">>, <<"a","b","c">>,
      <<"2",".","5">>, <<" ","2">>, <<"7","x">> }

LimitInputs ==
    { Undefined, <<>>, <<"0">>, <<"1">>, <<"1","0">>, <<"1","0","0">>,
      <<"1","0","1">>, <<"2","0","0">>, <<"-","5">>, <<"a","b","c">> }

Databases ==
    [ total : {0, 3, 250}, ids : {{"org1"}}, fails : {"none", "count", "find"},
      strict : BOOLEAN ]

ListRequests ==
    [ route : {"list"}, session : Sessions, page : PageInputs,
      limit : LimitInputs ]

DetailRequests ==
    [ route : {"detail"}, session : Sessions,
      id : {"org1", "non-existent-id"} ]

\* GET /admin/organizations
ListOrganizations ==
    /\ request = NoRequest
    /\ \E req \in ListRequests, db \in Databases :
           \E answer \in {listOrganizations(req, db)} :
               /\ request' = req
               /\ response' = answer.response
               /\ calls' = answer.calls
    /\ UNCHANGED <<env, resolvedEnv, built, cache, computed, failed, mail,
                   caught, lookups>>

\* GET /admin/organizations/:id
GetOrganization ==
    /\ request = NoRequest
    /\ \E req \in DetailRequests, db \in Databases :
           \E answer \in {getOrganization(req, db)} :
               /\ request' = req
               /\ response' = answer.response
               /\ calls' = answer.calls
    /\ UNCHANGED <<env, resolvedEnv, built, cache, computed, failed, mail,
                   caught, lookups>>

AdminInit ==
    /\ env = NoBindings
    /\ NothingCalled

AdminNext == ListOrganizations \/ GetOrganization

AdminSpec == AdminInit /\ [][AdminNext]_vars

-----------------------------------------------------------------------------
(* Properties of the admin organizations endpoints                         *)

\* the session of the answered request has a user, and the user this role
HasUser == request.session # NoSession /\ request.session.user # NoUser
IsAdmin == HasUser /\ request.session.user.role = "admin"

\* C23: GET /admin/organizations and GET /admin/organizations/:id answer
\* 401 with error "Not authenticated" to a request without session user
\* and 403 with error "Not authorized" to a session user whose role is
\* not "admin"; organization data goes to admins only, and no database
\* query is issued unless the role check has passed.
C23_AdminOnly ==
    Answered =>
        /\ ~HasUser => /\ response.status = 401
                       /\ response.body = [error |-> "Not authenticated"]
        /\ (HasUser /\ ~IsAdmin)
              => /\ response.status = 403
                 /\ response.body = [error |-> "Not authorized"]
        /\ "success" \in DOMAIN response.body => IsAdmin
        /\ calls # <<>> => IsAdmin

\* a user of role "user" asked for one organization and was answered 403
\* without a query
C23_Witness ==
    /\ Answered
    /\ request.route = "detail"
    /\ HasUser
    /\ request.session.user.role = "user"
    /\ response.status = 403
    /\ calls = <<>>

\* the pagination the response reports, and the findMany query
Pagination == response.body.pagination
FindMany == calls[2]

\* C25: for an admin's GET /admin/organizations, whatever page and limit
\* are given (absent, zero, negative, above 100, not a number), the
\* effective page is an integer of at least 1 and the effective limit an
\* integer from 1 to 100; they are what the response reports and what the
\* offset of the query is computed from.
C25_PaginationClamped ==
    (Answered /\ request.route = "list" /\ IsAdmin) =>
        /\ Len(calls) = 2 =>
              /\ ~FindMany.take.nan
              /\ FindMany.take.value \in 1..100
              /\ ~FindMany.skip.nan
              /\ FindMany.skip.value >= 0
              /\ FindMany.skip.value % FindMany.take.value = 0
        /\ response.status = 200 =>
              /\ ~Pagination.page.nan
              /\ Pagination.page.value >= 1
              /\ Pagination.limit = FindMany.take
              /\ FindMany.skip =
                    Num((Pagination.page.value - 1) * Pagination.limit.value)

-----------------------------------------------------------------------------
(* Avatars (src/endpoints/avatars.ts)                                      *)

\* the Bindings of the image service are all set
Configured(bindings) ==
    /\ bindings.CLOUDFLARE_ACCOUNT_ID
    /\ bindings.CLOUDFLARE_IMAGES_TOKEN
    /\ bindings.CLOUDFLARE_IMAGES_HASH

verifyAuthenticated(session) ==
    IF session = NoSession \/ session.user = NoUser
    THEN [isAuthenticated |-> FALSE, error |-> "Not authenticated"]
    ELSE [isAuthenticated |-> TRUE, error |-> "none"]

\* the response of a handler whose try block threw: a CloudflareImagesError
\* keeps its code as status when the handler passes that code on, any other
\* error is a 500
Failure(thrown, passedOn) ==
    IF thrown.name = "CloudflareImagesError"
    THEN [ status |-> IF thrown.code \in passedOn THEN thrown.code ELSE 500,
           body |-> [ success |-> FALSE,
                      errors |-> << [ code |-> IF thrown.code = 0 THEN 500
                                               ELSE thrown.code ] >> ] ]
    ELSE [ status |-> 500,
           body |-> [success |-> FALSE, errors |-> <<[code |-> 500]>>] ]

NotConfigured == [name |-> "Error", code |-> 0]

\* the part of the two handlers after the authentication: getImagesConfig,
\* then the call of the image service, which returns or throws
ImageCall(req, bindings, service, op, passedOn, result) ==
    LET authCheck == verifyAuthenticated(req.session)
        getImagesConfig == [op |-> "getImagesConfig"]
    IN  IF ~authCheck.isAuthenticated
        THEN [ response |-> [status |-> 401, body |-> [error |-> authCheck.error]],
               calls |-> <<>> ]
        ELSE IF ~Configured(bindings)
        THEN [ response |-> Failure(NotConfigured, passedOn),
               calls |-> <<getImagesConfig>> ]
        ELSE IF service.throws
        THEN [ response |-> Failure(service.thrown, passedOn),
               calls |-> <<getImagesConfig, [op |-> op]>> ]
        ELSE [ response |->
                 [status |-> 200, body |-> [success |-> TRUE, result |-> result]],
               calls |-> <<getImagesConfig, [op |-> op]>> ]

\* avatarsRouter.post("/upload-url")
postUploadUrl(req, bindings, service) ==
    ImageCall(req, bindings, service, "getDirectUploadUrl", {401, 403},
              "uploadURL")

\* avatarsRouter.delete("/:imageId")
deleteAvatar(req, bindings, service) ==
    ImageCall(req, bindings, service, "deleteImage", {401, 403, 404},
              "deleted")

\* avatarsRouter.get("/delivery-url/:imageId"): the handler asks for no
\* session
getDeliveryUrl(req, bindings, service) ==
    IF ~bindings.CLOUDFLARE_IMAGES_HASH
    THEN [ response |->
             [ status |-> 500,
               body |-> [success |-> FALSE, errors |-> <<[code |-> 500]>>] ],
           calls |-> <<[op |-> "CLOUDFLARE_IMAGES_HASH"]>> ]
    ELSE [ response |->
             [ status |-> 200,
               body |-> [success |-> TRUE, result |-> "deliveryUrl"] ],
           calls |-> <<[op |-> "CLOUDFLARE_IMAGES_HASH"],
                       [op |-> "getImageDeliveryUrl"]>> ]

\* The avatar routes are mounted behind a check of the session that is not
\* part of the sources at hand; its tests expect 401 with success false and
\* errors[0].code 401 for a request without session on each of the three
\* routes.

\* a mount that lets every request through to the router
requireSession_None(session) == TRUE

requireSession(session) == session # NoSession /\ session.user # NoUser

Unauthorized ==
    [ response |->
        [ status |-> 401,
          body |-> [success |-> FALSE, errors |-> <<[code |-> 401]>>] ],
      calls |-> <<>> ]

ImageBindings ==
    [ CLOUDFLARE_ACCOUNT_ID : BOOLEAN, CLOUDFLARE_IMAGES_TOKEN : BOOLEAN,
      CLOUDFLARE_IMAGES_HASH : BOOLEAN ]

\* what the image service does with a call: it returns, or throws a
\* CloudflareImagesError with or without code, or another Error
ImageServices ==
    { [throws |-> FALSE, thrown |-> NotConfigured] }
    \cup { [ throws |-> TRUE,
             thrown |-> [name |-> "CloudflareImagesError", code |-> code] ] :
             code \in {0, 401, 403, 404, 500} }
    \cup { [throws |-> TRUE, thrown |-> [name |-> "Error", code |-> 0]] }

AvatarSessions ==
    { NoSession, [user |-> NoUser],
      [user |-> [id |-> "u1", role |-> "user"]],
      [user |-> [id |-> "u2", role |-> "admin"]] }

AvatarRequests(route) ==
    [ route : {route}, session : AvatarSessions,
      imageId : {"some-image-id", "test-image-id"} ]

\* a request to the route of the avatars router, answered by the handler
Avatar(route, req, bindings, service) ==
    IF ~requireSession(req.session) THEN Unauthorized
    ELSE IF route = "upload-url" THEN postUploadUrl(req, bindings, service)
    ELSE IF route = "delete" THEN deleteAvatar(req, bindings, service)
    ELSE getDeliveryUrl(req, bindings, service)

AvatarRequest(route) ==
    /\ request = NoRequest
    /\ \E req \in AvatarRequests(route), bindings \in ImageBindings,
          service \in ImageServices :
           \E answer \in {Avatar(route, req, bindings, service)} :
               /\ request' = req
               /\ env' = bindings
               /\ response' = answer.response
               /\ calls' = answer.calls
    /\ UNCHANGED <<resolvedEnv, built, cache, computed, failed, mail, caught,
                   lookups>>

\* POST /avatars/upload-url
UploadUrl == AvatarRequest("upload-url")

\* DELETE /avatars/:imageId
DeleteAvatar == AvatarRequest("delete")

\* GET /avatars/delivery-url/:imageId
DeliveryUrl == AvatarRequest("delivery-url")

AvatarInit ==
    /\ env = NoBindings
    /\ NothingCalled

AvatarNext == UploadUrl \/ DeleteAvatar \/ DeliveryUrl

AvatarSpec == AvatarInit /\ [][AvatarNext]_vars

-----------------------------------------------------------------------------
(* Properties of the avatar endpoints                                      *)

-----------------------------------------------------------------------------
(* Properties of the advanced options                                      *)

\* C26: the built configuration has useSecureCookies true for the local
\* environment and false for the test environment.
C26_SecureCookies ==
    (Called /\ built.status = "returned") =>
        /\ Tag = "local" => built.config.options.advanced.useSecureCookies
        /\ Tag = "test" => ~built.config.options.advanced.useSecureCookies

-----------------------------------------------------------------------------
(* Matching an origin against a trusted pattern                            *)

ORIGIN_SUFFIX ==
    <<"h","t","t","p","s",":","/","/","e","v","i","l","b","o","l","e","t","r",
      "i","c","s",".","w","o","r","k","e","r","s",".","d","e","v">>
ORIGIN_NO_LABEL ==
    <<"h","t","t","p","s",":","/","/",".","b","o","l","e","t","r","i","c","s",
      ".","w","o","r","k","e","r","s",".","d","e","v">>
ORIGIN_CLIENT ==
    <<"h","t","t","p","s",":","/","/","q","a",".","c","l","i","e","n","t","-",
      "s","t","a","g","i","n","g",".","c","o","m">>
PATTERN_CLIENT ==
    <<"h","t","t","p","s",":","/","/","*",".","c","l","i","e","n","t","-","s",
      "t","a","g","i","n","g",".","c","o","m">>

\* origins given to the matcher: hosts one label below a domain, the bare
\* domain, two labels below it, a host that ends with the text of the
\* domain, an empty label, another scheme, and unrelated origins
MatchOrigins ==
    { ORIGIN_APP, ORIGIN_APEX, ORIGIN_NESTED, ORIGIN_SUFFIX, ORIGIN_NO_LABEL,
      ORIGIN_HTTP_APP, ORIGIN_CLIENT, ORIGIN_PORTAL, ORIGIN_LOGIN,
      ORIGIN_EVIL, ORIGIN_LOCALHOST, <<>> }

\* wildcard patterns and literal patterns
WildcardPatterns ==
    { DEFAULT_TRUSTED_ORIGIN, PATTERN_CLIENT,
      <<"h","t","t","p",":","/","/">> \o DOMAIN_WILDCARD }

LiteralPatterns ==
    { ORIGIN_APEX, ORIGIN_PORTAL, ORIGIN_APP, ORIGIN_HTTP_APP, ORIGIN_SUFFIX,
      ORIGIN_LOCALHOST }

\* matchesOriginPattern(origin, pattern) for one origin and one pattern
MatchOrigin ==
    /\ request = NoRequest
    /\ \E origin \in MatchOrigins,
          pattern \in WildcardPatterns \cup LiteralPatterns :
           /\ request' = [origin |-> origin, pattern |-> pattern]
           /\ response' = [matches |-> matchesOriginPattern(origin, pattern)]
    /\ UNCHANGED <<env, resolvedEnv, built, cache, computed, failed, mail,
                   caught, calls, lookups>>

MatchInit ==
    /\ env = NoBindings
    /\ NothingCalled

MatchNext == MatchOrigin

MatchSpec == MatchInit /\ [][MatchNext]_vars

\* the origin is the scheme of the pattern, one non-empty label without
\* dot, and the pattern's text after the asterisk
OneLabelBelow(origin, pattern) ==
    LET scheme == SubSeq(pattern, 1, indexOf(pattern, "*") - 1)
        domain == SubSeq(pattern, indexOf(pattern, "*") + 1, Len(pattern))
    IN  \E n \in 1..Len(origin) :
            /\ Len(origin) = Len(scheme) + n + Len(domain)
            /\ SubSeq(origin, 1, Len(scheme)) = scheme
            /\ SubSeq(origin, Len(scheme) + n + 1, Len(origin)) = domain
            /\ \A i \in (Len(scheme) + 1)..(Len(scheme) + n) : origin[i] # "."

\* C27: an origin matches scheme://*.domain only if its scheme is that of
\* the pattern and its host is one non-empty label followed by .domain:
\* the bare domain, two labels in front of the domain, a host that only
\* ends with the text of the domain, and the same host under another
\* scheme do not match; a literal pattern matches the identical origin only.
C27_WildcardOneLabel ==
    (Answered /\ "pattern" \in DOMAIN request) =>
        /\ request.pattern \in WildcardPatterns =>
              (response.matches <=> OneLabelBelow(request.origin, request.pattern))
        /\ request.pattern = DEFAULT_TRUSTED_ORIGIN =>
              (response.matches <=> request.origin = ORIGIN_APP)
        /\ request.pattern = PATTERN_CLIENT =>
              (response.matches <=> request.origin = ORIGIN_CLIENT)
        /\ request.pattern \in LiteralPatterns =>
              (response.matches <=> request.origin = request.pattern)

\* https://app.boletrics.workers.dev matched https://*.boletrics.workers.dev
C27_Witness ==
    /\ Answered
    /\ "pattern" \in DOMAIN request
    /\ request.pattern = DEFAULT_TRUSTED_ORIGIN
    /\ request.origin = ORIGIN_APP
    /\ response.matches

-----------------------------------------------------------------------------
(* Properties of the order of validation                                   *)

\* the error of the first invalid input in the order secret, base URL,
\* cookie domain, internal token; none when all are valid
FirstInvalid(bindings) ==
    LET tag == resolveAuthEnvironment(bindings)
        secret == resolveSecret(bindings.BETTER_AUTH_SECRET, tag)
        baseURL == resolveBaseURL(bindings.BETTER_AUTH_URL, tag)
        cookieDomain == resolveCookieDomain(bindings, tag)
        accessPolicy == resolveAccessPolicy(bindings, tag)
    IN  IF secret.threw THEN secret.error
        ELSE IF baseURL.threw THEN baseURL.error
        ELSE IF cookieDomain.threw THEN cookieDomain.error
        ELSE IF accessPolicy.threw THEN accessPolicy.error
        ELSE <<>>

\* C28: the configuration assembly validates the environment, the secret,
\* the base URL, the cookie domain and the trusted origins, and only then
\* the internal token; of several invalid inputs it reports the first in
\* this order, so a malformed cookie-domain override is reported before a
\* missing internal token.
C28_ValidationOrder ==
    Called =>
        \E first \in {FirstInvalid(env)} :
            /\ built.status = "threw" <=> first # <<>>
            /\ built.error = first

-----------------------------------------------------------------------------
(* Concurrent first lookups of the memoized configuration                  *)
(*                                                                         *)
(* Section 5 of the specification allows two first requests to both       *)
(* compute and write the entry of a tag: a lookup is modelled as a read    *)
(* of the memo map followed, after a miss, by the construction and the     *)
(* write; the steps of different requests interleave.                      *)

RaceRequests == 1..3

\* Bindings of the concurrent lookups: dev, dev with explicit trusted
\* origins, local, and dev with a secret that is too short
RaceInputs ==
    { ValidDev,
      [ValidDev EXCEPT !.AUTH_TRUSTED_ORIGINS = ORIGINS_EXPLICIT],
      [ValidDev EXCEPT !.ENVIRONMENT = K_local, !.AUTH_INTERNAL_TOKEN = Undefined],
      [ValidDev EXCEPT !.BETTER_AUTH_SECRET = Repeat("s", MIN_SECRET_LENGTH - 1)] }

\* a lookup that has not read the memo map yet
Waiting(bindings) ==
    [ bindings |-> bindings, pc |-> "read", observed |-> NoConfig,
      wrote |-> NoConfig, error |-> <<>> ]

KeyOf(bindings) == <<ORG_SLUG, "-", resolveAuthEnvironment(bindings)>>

\* the lookup of the request reads the memo map: a hit ends it with the
\* entry, a miss lets it build
Read(r) ==
    /\ lookups[r].pc = "read"
    /\ lookups' =
          IF KeyOf(lookups[r].bindings) \in DOMAIN cache
          THEN [lookups EXCEPT ![r].pc = "done",
                               ![r].observed = cache[KeyOf(lookups[r].bindings)]]
          ELSE [lookups EXCEPT ![r].pc = "build"]
    /\ UNCHANGED <<env, resolvedEnv, built, request, response, cache, computed,
                   failed, mail, caught, calls>>

\* the lookup of the request builds the configuration and, when the
\* construction returned, writes it under its cacheKey
Write(r) ==
    /\ lookups[r].pc = "build"
    /\ \E fresh \in {buildResolvedAuthConfig(lookups[r].bindings)} :
           IF fresh.status = "returned"
           THEN /\ cache' = Put(cache, fresh.config.cacheKey, fresh.config)
                /\ lookups' = [lookups EXCEPT ![r].pc = "done",
                                              ![r].observed = fresh.config,
                                              ![r].wrote = fresh.config]
           ELSE /\ cache' = cache
                /\ lookups' = [lookups EXCEPT ![r].pc = "done",
                                              ![r].error = fresh.error]
    /\ UNCHANGED <<env, resolvedEnv, built, request, response, computed,
                   failed, mail, caught, calls>>

RaceInit ==
    /\ env = NoBindings
    /\ resolvedEnv = "undefined"
    /\ built = NotBuilt
    /\ request = NoRequest
    /\ response = NoResponse
    /\ cache = EmptyCache
    /\ computed = EmptyCache
    /\ failed = {}
    /\ mail = NoMail
    /\ caught = NothingCaught
    /\ calls = <<>>
    /\ lookups \in { [r \in RaceRequests |-> Waiting(choice[r])] :
                       choice \in [RaceRequests -> RaceInputs] }

RaceNext == \E r \in RaceRequests : Read(r) \/ Write(r)

RaceSpec == RaceInit /\ [][RaceNext]_vars

-----------------------------------------------------------------------------
(* Properties of concurrent first lookups                                  *)

\* the lookups under way are those of concurrent requests
Racing == lookups # NoLookups

\* the requests whose lookup wrote an entry for the key
Writers(key) ==
    { r \in RaceRequests :
        lookups[r].wrote # NoConfig /\ KeyOf(lookups[r].bindings) = key }

\* C29: when several requests concurrently perform the first lookup for
\* one environment tag, each reader observes no entry or a complete,
\* validated one, all entries written for the tag are equal, and once all
\* have finished the memo map holds one entry for the tag, which later
\* readers reuse.
C29_BenignRace ==
    Racing =>
        /\ \A r \in RaceRequests :
              lookups[r].observed # NoConfig =>
                  \E w \in RaceRequests :
                      /\ lookups[w].wrote = lookups[r].observed
                      /\ KeyOf(lookups[w].bindings) = KeyOf(lookups[r].bindings)
        /\ \A key \in DOMAIN cache :
              \A a \in Writers(key), b \in Writers(key) :
                  lookups[a].wrote = lookups[b].wrote
        /\ (\A r \in RaceRequests : lookups[r].pc = "done") =>
              \A key \in DOMAIN cache :
                  /\ Writers(key) # {}
                  /\ \A w \in Writers(key) : lookups[w].wrote = cache[key]

-----------------------------------------------------------------------------
(* Deferred completion of email delivery                                   *)

\* The platform ends the invocation once the response is sent: work that
\* was handed to executionContext.waitUntil is kept running until it
\* settles, a pending promise that was not is dropped.
Terminate ==
    /\ mail.callback = "returned"
    /\ mail.promise = "pending"
    /\ mail.registered # "waitUntil"
    /\ mail' = [mail EXCEPT !.promise = "dropped"]
    /\ UNCHANGED <<env, resolvedEnv, built, request, response, cache, computed,
                   failed, caught, calls, lookups>>

DeferredNext == Trigger \/ Settle \/ Terminate

\* the send promise settles when the platform lets it run
DeferredSpec == MailInit /\ [][DeferredNext]_vars /\ WF_vars(Settle)

\* the lines the send functions log, one for each attempt
AttemptLines ==
    FailureLines
    \cup { "[Mandrill] Password reset email sent successfully",
           "[Mandrill] OTP email sent successfully",
           "[Mandrill] Organization invitation email sent successfully" }

Attempts == Len(SelectSeq(mail.log, LAMBDA line : line \in AttemptLines))

\* C30: a send started by a trigger is attempted at most once, is not
\* awaited by the request path, and is handed to the background-task
\* mechanism of the platform, so that under fairness it runs to completion
\* (delivered, or the failure logged) even after the response is sent;
\* this for every execution context, also one without waitUntil.
C30_DeferredCompletion ==
    /\ [](Attempts <= 1)
    /\ [][(mail.callback = "none" /\ mail'.callback = "returned")
            => (mail'.response = 200 /\ mail'.promise \in {"none", "pending"})]_vars
    /\ [](mail.promise # "none" => mail.registered = "waitUntil")
    /\ [](mail.promise = "pending"
            => <>(mail.promise = "fulfilled" /\ Attempts = 1))

=============================================================================
